---- MODULE Spec2Model ----
(***************************************************************************)
(* Model of the protocol-conversion layer of the Claude-to-OpenAI proxy:   *)
(* the streaming converter (response-converter / shared-converters) and    *)
(* the request converter (request-converter).                              *)
(***************************************************************************)
EXTENDS Integers, Sequences, FiniteSets, TLC

\* Longest upstream chunk sequence fed to the streaming converter.
MaxChunks == 3

\* An absent (undefined / null) field.
None == "none"

\* textBlockIndex: the block index of the primary text block.
textBlockIndex == 0

(***************************************************************************)
(* JSON text.  Argument fragments are sequences over a small token         *)
(* alphabet: "{" and "}" are the braces, "k" is one complete member        *)
(* ("a":1), " " is one whitespace character.                               *)
(***************************************************************************)
IsWs(t) == t = " "

NotWs(t) == ~IsWs(t)

\* JSON.parse(buf) does not throw: the text is, up to insignificant
\* whitespace around structural tokens, "{}" or "{k}".
JSONParses(buf) ==
    SelectSeq(buf, NotWs) \in { <<"{", "}">>, <<"{", "k", "}">> }

(***************************************************************************)
(* Error messages are sequences of words; toLowerCase acts word by word.   *)
(***************************************************************************)
ToLower(w) ==
    CASE w = "Timeout" -> "timeout"
      [] w = "Rate"    -> "rate"
      [] w = "Limit"   -> "limit"
      [] w = "Unauthorized" -> "unauthorized"
      [] w = "Haiku"   -> "haiku"
      [] w = "OPUS"    -> "opus"
      [] w = "Sonnet"  -> "sonnet"
      [] OTHER -> w

LowerMsg(m) == [i \in 1..Len(m) |-> ToLower(m[i])]

\* String.prototype.includes on word sequences.
Includes(m, p) ==
    \E i \in 0..(Len(m) - Len(p)) : \A j \in 1..Len(p) : m[i + j] = p[j]

MsgInvalidKey == <<"Invalid API key provided. Please check your OpenAI API key.">>
MsgRateLimit  == <<"Rate limit or quota exceeded. Please try again later.">>
MsgModel      == <<"The requested model is not available or does not exist.">>
MsgTooLong    == <<"Request too long. Please reduce the message length or max_tokens.">>
MsgTimeout    == <<"Request timed out. Please try again.">>

\* Plausible slip: the lower-cased copy is returned when no group matches.
classifyError_Lowered(errorMessage) ==
    LET message == LowerMsg(errorMessage) IN
    IF Includes(message, <<"invalid", "api", "key">>) \/ Includes(message, <<"unauthorized">>)
      THEN MsgInvalidKey
    ELSE IF Includes(message, <<"quota", "exceeded">>) \/ Includes(message, <<"rate", "limit">>)
      THEN MsgRateLimit
    ELSE IF Includes(message, <<"model", "not", "found">>) \/ Includes(message, <<"model", "does", "not", "exist">>)
      THEN MsgModel
    ELSE IF Includes(message, <<"context_length_exceeded">>) \/ Includes(message, <<"maximum", "context", "length">>)
      THEN MsgTooLong
    ELSE IF Includes(message, <<"timeout">>) \/ Includes(message, <<"timed", "out">>)
      THEN MsgTimeout
    ELSE message

classifyError(errorMessage) ==
    LET message == LowerMsg(errorMessage) IN
    IF Includes(message, <<"invalid", "api", "key">>) \/ Includes(message, <<"unauthorized">>)
      THEN MsgInvalidKey
    ELSE IF Includes(message, <<"quota", "exceeded">>) \/ Includes(message, <<"rate", "limit">>)
      THEN MsgRateLimit
    ELSE IF Includes(message, <<"model", "not", "found">>) \/ Includes(message, <<"model", "does", "not", "exist">>)
      THEN MsgModel
    ELSE IF Includes(message, <<"context_length_exceeded">>) \/ Includes(message, <<"maximum", "context", "length">>)
      THEN MsgTooLong
    ELSE IF Includes(message, <<"timeout">>) \/ Includes(message, <<"timed", "out">>)
      THEN MsgTimeout
    ELSE errorMessage

\* The message of the TypeError raised by reading [0] of an absent choices list.
TypeErrorMsg == <<"Cannot", "read", "properties", "of", "undefined">>

\* Messages with which a read of the upstream may fail.
ReadErrMsgs == { <<"network", "error">>, <<"Request", "Timeout">>, <<"Rate", "Limit", "timeout">> }

(***************************************************************************)
(* mapOpenAIFinishReason                                                   *)
(***************************************************************************)
\* Plausible slip: the table without the tool-call reasons.
mapOpenAIFinishReason_NoTools(finishReason) ==
    CASE finishReason = "stop" -> "end_turn"
      [] finishReason = "length" -> "max_tokens"
      [] finishReason = "content_filter" -> "stop_sequence"
      [] OTHER -> "end_turn"

mapOpenAIFinishReason(finishReason) ==
    CASE finishReason = "stop"           -> "end_turn"
      [] finishReason = "length"         -> "max_tokens"
      [] finishReason = "tool_calls"     -> "tool_use"
      [] finishReason = "function_call"  -> "tool_use"
      [] finishReason = "content_filter" -> "stop_sequence"
      [] OTHER                           -> "end_turn"

(***************************************************************************)
(* Source stream events (createStreamingEvents).  Every event is a record  *)
(* of one shape; fields an event type does not carry keep their default.   *)
(***************************************************************************)
Ev == [type |-> "", index |-> -1, block |-> None, id |-> None, name |-> None,
       delta |-> None, text |-> None, partial_json |-> <<>>,
       stop_reason |-> None, output_tokens |-> -1,
       error_type |-> None, message |-> <<>>]

messageStart == [Ev EXCEPT !.type = "message_start", !.output_tokens = 0]

contentBlockStart ==
    [Ev EXCEPT !.type = "content_block_start", !.index = 0, !.block = "text"]

contentBlockDelta(text) ==
    [Ev EXCEPT !.type = "content_block_delta", !.index = 0,
               !.delta = "text_delta", !.text = text]

toolUseStart(index, id, name) ==
    [Ev EXCEPT !.type = "content_block_start", !.index = index,
               !.block = "tool_use", !.id = id, !.name = name]

toolUseDelta(index, partialJson) ==
    [Ev EXCEPT !.type = "content_block_delta", !.index = index,
               !.delta = "input_json_delta", !.partial_json = partialJson]

toolUseStop(index) == [Ev EXCEPT !.type = "content_block_stop", !.index = index]

contentBlockStop == [Ev EXCEPT !.type = "content_block_stop", !.index = 0]

\* Plausible slip: the usage of message_start is repeated.
messageDelta_ZeroUsage(sr, ot) ==
    [Ev EXCEPT !.type = "message_delta", !.stop_reason = sr, !.output_tokens = 0]

messageDelta(sr, ot) ==
    [Ev EXCEPT !.type = "message_delta", !.stop_reason = sr, !.output_tokens = ot]

messageStop == [Ev EXCEPT !.type = "message_stop"]

errorEvent(errorMessage) ==
    [Ev EXCEPT !.type = "error", !.error_type = "api_error", !.message = errorMessage]

(***************************************************************************)
(* Destination stream chunks.                                              *)
(***************************************************************************)
\* One entry of delta.tool_calls.
TcDelta(index, id, name, hasArgs, arguments) ==
    [index |-> index, id |-> id, name |-> name,
     hasArgs |-> hasArgs, arguments |-> arguments]

\* choices: "missing" (no choices field), "empty" ([]), "one" (one choice);
\* "garbled" marks a data line whose payload is not JSON text.
Chunk(choices, content, toolCalls, finishReason) ==
    [choices |-> choices, content |-> content,
     tool_calls |-> toolCalls, finish_reason |-> finishReason]

NoChoices    == Chunk("missing", None, <<>>, None)
Garbled      == Chunk("garbled", None, <<>>, None)
EmptyChoices == Chunk("empty", None, <<>>, None)
TextChunk    == Chunk("one", "x", <<>>, None)
FinLength    == Chunk("one", None, <<>>, "length")
FinToolCalls == Chunk("one", None, <<>>, "tool_calls")
TextFinStop  == Chunk("one", "x", <<>>, "stop")

\* Tool-call fragments on destination index i.
Header(i)   == TcDelta(i, IF i = 0 THEN "t0" ELSE "t1", "f", TRUE, <<>>)
IdOnly(i)   == TcDelta(i, IF i = 0 THEN "t0" ELSE "t1", None, FALSE, <<>>)
NameOnly(i) == TcDelta(i, None, "f", FALSE, <<>>)
Args(i, a)  == TcDelta(i, None, None, TRUE, a)

ToolChunk(tcs) == Chunk("one", None, tcs, None)

\* Chunks of the general specification.
ChunkSet ==
    { NoChoices, EmptyChoices, TextChunk, FinLength, FinToolCalls, TextFinStop,
      ToolChunk(<<Header(0), Args(0, <<"{", "}">>)>>),
      ToolChunk(<<IdOnly(1)>>), ToolChunk(<<NameOnly(1)>>) }

\* Argument fragments of the tool-call specification.
Fragments == { <<"{">>, <<"k">>, <<"}">>, <<" ">>, <<"{", "}">> }

ToolChunkSet ==
    { ToolChunk(<<Header(0)>>), ToolChunk(<<IdOnly(0)>>), ToolChunk(<<NameOnly(0)>>),
      ToolChunk(<<Header(1)>>) }
    \cup { ToolChunk(<<Args(0, a)>>) : a \in Fragments }

SeqsUpTo(S, n) == UNION { [1..k -> S] : k \in 0..n }

Shapes == { "iterable", "stream" }

(***************************************************************************)
(* State.                                                                  *)
(***************************************************************************)
VARIABLES
    shape,            \* transport shape of openaiStream
    chunks,           \* the destination chunks the upstream delivers
    pos,              \* upstream items (chunks, or SSE lines) consumed so far
    pc,               \* position of the generator
    yielded,          \* events yielded so far
    outputTokens,
    stopReason,
    currentToolCalls, \* destination index -> accumulator
    toolBlockCounter,
    readerLocked,     \* the byte-stream reader is held
    caught,           \* message of the error caught by the outer catch
    readFailed,       \* a read of the upstream was rejected
    raised,           \* an error was raised while consuming the upstream
    finishSeen,       \* a chunk carrying finish_reason has been processed
    firstRun,         \* events of the iterable run, kept for the stream run
    request,          \* the source request handed to convertClaudeToOpenAI
    rpc,              \* position of the request converter
    msgIndex,         \* i, the index of the source message under conversion
    openaiRequest,    \* openaiRequest.messages
    origin,           \* per destination message, the source message it came from
    convertedMessages,
    currentSize,
    finalMessages,
    call,             \* the function applied and its argument
    ret,              \* what the call returned
    hpc,              \* position of the /v1/messages handler
    inbound,          \* the inbound HTTP request
    fetches,          \* outbound fetch calls issued for the inbound request
    response,         \* status and error type of the HTTP response
    frames,           \* frames enqueued on the response stream
    consumer,         \* the reader of the response stream: has it cancelled, and where
    client,           \* one call of OpenAIClient: position, timer, time elapsed
    sessions,         \* per concurrent inbound request, its position and locals
    CONFIG            \* globalThis.CONFIG

vars == <<shape, chunks, pos, pc, yielded, outputTokens, stopReason,
          currentToolCalls, toolBlockCounter, readerLocked, caught,
          readFailed, raised, finishSeen, firstRun, request, rpc, msgIndex,
          openaiRequest, origin, convertedMessages, currentSize, finalMessages,
          call, ret, hpc, inbound, fetches, response, frames,
          consumer, client, sessions, CONFIG>>

streamVars == <<shape, chunks, pos, pc, yielded, outputTokens, stopReason,
                currentToolCalls, toolBlockCounter, readerLocked, caught,
                readFailed, raised, finishSeen, firstRun>>

reqVars == <<request, rpc, msgIndex, openaiRequest, origin, convertedMessages,
             currentSize, finalMessages>>

utilVars == <<call, ret>>

handlerVars == <<hpc, inbound, fetches, response, frames>>

extVars == <<consumer, client, sessions, CONFIG>>

\* Nobody has cancelled the response stream.
\* ops: the calls made on the controller of the response stream since the
\* consumer cancelled it.
NoConsumer == [cancelled |-> FALSE, pos |-> 0, len |-> 0, reads |-> 0, ops |-> << >>]

\* No call of the client is under way.
NoClient == [pc |-> "idle", streaming |-> FALSE, timeoutSeconds |-> 0, elapsed |-> 0,
             timer |-> "unset", aborted |-> FALSE, error |-> << >>]

\* globalThis.CONFIG is undefined.
NoConfig == [present |-> FALSE, maxTokensLimit |-> 0, writer |-> 0]

\* No stream consumer, no client call and no concurrent requests.
ExtIdle ==
    /\ consumer = NoConsumer
    /\ client = NoClient
    /\ sessions = << >>
    /\ CONFIG = NoConfig

NoCall == [fn |-> "none", arg |-> << >>]

NotReturned == [done |-> FALSE, threw |-> FALSE, value |-> << >>]

\* No function is under evaluation.
UtilIdle ==
    /\ call = NoCall
    /\ ret = NotReturned

\* An HTTP response not yet decided.
NoResponse == [status |-> 0, type |-> None]

\* No inbound request is being handled.
HandlerIdle ==
    /\ hpc = "idle"
    /\ inbound = << >>
    /\ fetches = 0
    /\ response = NoResponse
    /\ frames = << >>

NoRequest == [system |-> << >>, hasSystem |-> FALSE, messages |-> << >>]

\* No request is under conversion.
ReqIdle ==
    /\ request = NoRequest
    /\ rpc = "idle"
    /\ msgIndex = 0
    /\ openaiRequest = << >>
    /\ origin = << >>
    /\ convertedMessages = << >>
    /\ currentSize = 0
    /\ finalMessages = << >>

NewToolCall ==
    [id |-> None, name |-> None, argsBuffer |-> <<>>, jsonSent |-> FALSE,
     claudeIndex |-> -1, started |-> FALSE]

(***************************************************************************)
(* processToolCallDelta.  The accumulators, the counter and the events     *)
(* pushed to results travel as one record r = [calls, counter, results];   *)
(* claudeIndex -1 stands for null.                                         *)
(***************************************************************************)
\* Creation of the accumulator on first sight, then the id and name updates.
Observe(tcDelta, calls) ==
    LET tcIndex == tcDelta.index
        calls1  == IF tcIndex \in DOMAIN calls THEN calls
                   ELSE calls @@ (tcIndex :> NewToolCall)
    IN  [calls1 EXCEPT
           ![tcIndex].id   = IF tcDelta.id # None THEN tcDelta.id ELSE @,
           ![tcIndex].name = IF tcDelta.name # None THEN tcDelta.name ELSE @]

\* Plausible slip: the started flag is not consulted.
StartCondition_Restart(toolCall) ==
    toolCall.id # None /\ toolCall.name # None

\* if (toolCall.id && toolCall.name && !toolCall.started)
StartCondition(toolCall) ==
    toolCall.id # None /\ toolCall.name # None /\ ~toolCall.started

\* Plausible slip: the counter is read before it is incremented, so the
\* first tool block takes the index of the text block.
StartTool_PostIncrement(tcIndex, r) ==
    IF StartCondition(r.calls[tcIndex])
    THEN [calls   |-> [r.calls EXCEPT
                         ![tcIndex].claudeIndex = textBlockIndex + r.counter,
                         ![tcIndex].started = TRUE],
          counter |-> r.counter + 1,
          results |-> Append(r.results,
                             toolUseStart(textBlockIndex + r.counter,
                                          r.calls[tcIndex].id, r.calls[tcIndex].name))]
    ELSE r

StartTool(tcIndex, r) ==
    IF StartCondition(r.calls[tcIndex])
    THEN [calls   |-> [r.calls EXCEPT
                         ![tcIndex].claudeIndex = textBlockIndex + (r.counter + 1),
                         ![tcIndex].started = TRUE],
          counter |-> r.counter + 1,
          results |-> Append(r.results,
                             toolUseStart(textBlockIndex + (r.counter + 1),
                                          r.calls[tcIndex].id, r.calls[tcIndex].name))]
    ELSE r

\* Plausible slip: the jsonSent flag is not consulted.
SendCondition_Resend(toolCall) ==
    JSONParses(toolCall.argsBuffer) /\ toolCall.claudeIndex # -1

\* if (!toolCall.jsonSent && toolCall.claudeIndex !== null), under a
\* successful JSON.parse(toolCall.argsBuffer).
SendCondition(toolCall) ==
    JSONParses(toolCall.argsBuffer) /\ ~toolCall.jsonSent /\ toolCall.claudeIndex # -1

SendJson(tcIndex, r) ==
    IF SendCondition(r.calls[tcIndex])
    THEN [r EXCEPT !.calls[tcIndex].jsonSent = TRUE,
                   !.results = Append(@, toolUseDelta(r.calls[tcIndex].claudeIndex,
                                                      r.calls[tcIndex].argsBuffer))]
    ELSE r

\* Plausible slip: = in place of +=.
AppendArgs_Overwrite(argsBuffer, arguments) == arguments

\* toolCall.argsBuffer += functionData.arguments
AppendArgs(argsBuffer, arguments) == argsBuffer \o arguments

\* if (functionData?.arguments !== undefined && toolCall.started && ... !== null)
Accumulate(tcDelta, r) ==
    IF tcDelta.hasArgs /\ r.calls[tcDelta.index].started
    THEN SendJson(tcDelta.index,
                  [r EXCEPT !.calls[tcDelta.index].argsBuffer =
                                AppendArgs(@, tcDelta.arguments)])
    ELSE r

processToolCallDelta(tcDelta, calls, counter) ==
    Accumulate(tcDelta,
               StartTool(tcDelta.index,
                         [calls   |-> Observe(tcDelta, calls),
                          counter |-> counter,
                          results |-> << >>]))

\* The for loop over delta.tool_calls.
RECURSIVE ProcessToolCalls(_, _, _, _)
ProcessToolCalls(tcs, i, calls, counter) ==
    IF i > Len(tcs)
    THEN [calls |-> calls, counter |-> counter, results |-> << >>]
    ELSE LET r    == processToolCallDelta(tcs[i], calls, counter)
             rest == ProcessToolCalls(tcs, i + 1, r.calls, r.counter)
         IN  [calls |-> rest.calls, counter |-> rest.counter,
              results |-> r.results \o rest.results]

(***************************************************************************)
(* The body both transport shapes run on one decoded chunk.  st is the     *)
(* converter's local state; the result adds how the body ended:            *)
(* "throw" (TypeError), "continue" or "break" (finish_reason).             *)
(***************************************************************************)
ProcessChunk(st, chunk) ==
    IF chunk.choices = "missing"
    THEN [st |-> [st EXCEPT !.raised = TRUE], end |-> "throw"]
    ELSE IF chunk.choices = "empty"
    THEN [st |-> st, end |-> "continue"]
    ELSE
      LET hasText == chunk.content # None
          tokens  == IF hasText THEN st.outputTokens + 1 ELSE st.outputTokens
          evText  == IF hasText THEN << contentBlockDelta(chunk.content) >> ELSE << >>
          tr      == ProcessToolCalls(chunk.tool_calls, 1, st.calls, st.counter)
          fin     == chunk.finish_reason # None
      IN  [st |-> [yielded      |-> st.yielded \o evText \o tr.results,
                   outputTokens |-> tokens,
                   stopReason   |-> IF fin THEN mapOpenAIFinishReason(chunk.finish_reason)
                                    ELSE st.stopReason,
                   calls        |-> tr.calls,
                   counter      |-> tr.counter,
                   finishSeen   |-> st.finishSeen \/ fin,
                   raised       |-> st.raised],
           end |-> IF fin THEN "break" ELSE "continue"]

Local ==
    [yielded |-> yielded, outputTokens |-> outputTokens, stopReason |-> stopReason,
     calls |-> currentToolCalls, counter |-> toolBlockCounter,
     finishSeen |-> finishSeen, raised |-> raised]

SetLocal(st) ==
    /\ yielded' = st.yielded
    /\ outputTokens' = st.outputTokens
    /\ stopReason' = st.stopReason
    /\ currentToolCalls' = st.calls
    /\ toolBlockCounter' = st.counter
    /\ finishSeen' = st.finishSeen
    /\ raised' = st.raised

(***************************************************************************)
(* The byte stream: one "data: <json>" line per chunk, then the sentinel.  *)
(***************************************************************************)
DoneLine == [done |-> TRUE, chunk |-> EmptyChoices]

\* A "data: [DONE]" line that the upstream sends before its last line.
Sentinel == Chunk("sentinel", None, << >>, None)

SSELines(cs) ==
    [i \in 1..(Len(cs) + 1) |->
        IF i <= Len(cs) /\ cs[i] # Sentinel
        THEN [done |-> FALSE, chunk |-> cs[i]] ELSE DoneLine]

\* The for loop over the lines of one read: [DONE] and finish_reason break
\* the for loop; an error raised by JSON.parse or by the body is caught and
\* the line skipped.
RECURSIVE ProcessLines(_, _, _)
ProcessLines(st, lines, i) ==
    IF i > Len(lines) THEN st
    ELSE IF lines[i].done THEN st
    ELSE IF lines[i].chunk.choices = "garbled"
    THEN ProcessLines([st EXCEPT !.raised = TRUE], lines, i + 1)
    ELSE LET r == ProcessChunk(st, lines[i].chunk) IN
         IF r.end = "break" THEN r.st
         ELSE ProcessLines(r.st, lines, i + 1)   \* "throw": catch, continue

(***************************************************************************)
(* Actions of convertOpenAIStreamingToClaudeWithCancellation.              *)
(***************************************************************************)
ConvInit ==
    /\ pos = 0
    /\ pc = "start"
    /\ yielded = << >>
    /\ outputTokens = 0
    /\ stopReason = "end_turn"
    /\ currentToolCalls = << >>
    /\ toolBlockCounter = 0
    /\ readerLocked = FALSE
    /\ caught = << >>
    /\ readFailed = FALSE
    /\ raised = FALSE
    /\ finishSeen = FALSE

YieldMessageStart ==
    /\ pc = "start"
    /\ yielded' = Append(yielded, messageStart)
    /\ pc' = "block0"
    /\ UNCHANGED <<shape, chunks, pos, outputTokens, stopReason, currentToolCalls,
                   toolBlockCounter, readerLocked, caught, readFailed, raised,
                   finishSeen, firstRun>>
    /\ UNCHANGED reqVars
    /\ UNCHANGED utilVars
    /\ UNCHANGED handlerVars
    /\ UNCHANGED extVars

YieldContentBlockStart ==
    /\ pc = "block0"
    /\ yielded' = Append(yielded, contentBlockStart)
    /\ pc' = "loop"
    /\ readerLocked' = (shape = "stream")
    /\ UNCHANGED <<shape, chunks, pos, outputTokens, stopReason, currentToolCalls,
                   toolBlockCounter, caught, readFailed, raised, finishSeen, firstRun>>
    /\ UNCHANGED reqVars
    /\ UNCHANGED utilVars
    /\ UNCHANGED handlerVars
    /\ UNCHANGED extVars

\* for await (const chunk of openaiStream): one iteration.
NextChunk ==
    /\ pc = "loop"
    /\ shape = "iterable"
    /\ IF pos = Len(chunks)
       THEN /\ pc' = "stop0"
            /\ UNCHANGED <<pos, yielded, outputTokens, stopReason, currentToolCalls,
                           toolBlockCounter, caught, raised, finishSeen>>
       ELSE LET r == ProcessChunk(Local, chunks[pos + 1]) IN
            /\ pos' = pos + 1
            /\ SetLocal(r.st)
            /\ pc' = CASE r.end = "throw" -> "catch"
                       [] r.end = "break" -> "stop0"
                       [] OTHER -> "loop"
            /\ caught' = IF r.end = "throw" THEN TypeErrorMsg ELSE caught
    /\ UNCHANGED <<shape, chunks, readerLocked, readFailed, firstRun>>
    /\ UNCHANGED reqVars
    /\ UNCHANGED utilVars
    /\ UNCHANGED handlerVars
    /\ UNCHANGED extVars

\* while (true) { await reader.read(); ... }: one iteration, the read
\* delivering the next k lines of the byte stream.
ReadStream ==
    /\ pc = "loop"
    /\ shape = "stream"
    /\ LET lines == SSELines(chunks) IN
       IF pos = Len(lines)
       THEN /\ pc' = "stop0"
            /\ readerLocked' = FALSE
            /\ UNCHANGED <<pos, yielded, outputTokens, stopReason, currentToolCalls,
                           toolBlockCounter, finishSeen, raised>>
       ELSE \E k \in 1..(Len(lines) - pos) :
            /\ pos' = pos + k
            /\ SetLocal(ProcessLines(Local, SubSeq(lines, pos + 1, pos + k), 1))
            /\ pc' = "loop"
            /\ UNCHANGED readerLocked
    /\ UNCHANGED <<shape, chunks, caught, readFailed, firstRun>>
    /\ UNCHANGED reqVars
    /\ UNCHANGED utilVars
    /\ UNCHANGED handlerVars
    /\ UNCHANGED extVars

\* The awaited read (or iterator step) is rejected with message m.
ReadFails ==
    /\ pc = "loop"
    /\ \E m \in ReadErrMsgs : caught' = m
    /\ readFailed' = TRUE
    /\ raised' = TRUE
    /\ readerLocked' = FALSE
    /\ pc' = "catch"
    /\ UNCHANGED <<shape, chunks, pos, yielded, outputTokens, stopReason,
                   currentToolCalls, toolBlockCounter, finishSeen, firstRun>>
    /\ UNCHANGED reqVars
    /\ UNCHANGED utilVars
    /\ UNCHANGED handlerVars
    /\ UNCHANGED extVars

YieldBlockStop ==
    /\ pc = "stop0"
    /\ yielded' = Append(yielded, contentBlockStop)
    /\ pc' = "toolstops"
    /\ UNCHANGED <<shape, chunks, pos, outputTokens, stopReason, currentToolCalls,
                   toolBlockCounter, readerLocked, caught, readFailed, raised,
                   finishSeen, firstRun>>
    /\ UNCHANGED reqVars
    /\ UNCHANGED utilVars
    /\ UNCHANGED handlerVars
    /\ UNCHANGED extVars

\* Plausible slip: the stop loop forgets the started check.
StopCondition_Always(toolData) == TRUE

\* if (toolData.started && toolData.claudeIndex !== null)
StopCondition(toolData) == toolData.started /\ toolData.claudeIndex # -1

\* Object.values(currentToolCalls): integer keys in ascending order.
RECURSIVE ToolStops(_, _)
ToolStops(calls, keys) ==
    IF keys = {} THEN << >>
    ELSE LET k == CHOOSE x \in keys : \A y \in keys : x <= y
             toolData == calls[k]
         IN  (IF StopCondition(toolData)
              THEN << toolUseStop(toolData.claudeIndex) >> ELSE << >>)
             \o ToolStops(calls, keys \ {k})

YieldToolStops ==
    /\ pc = "toolstops"
    /\ yielded' = yielded \o ToolStops(currentToolCalls, DOMAIN currentToolCalls)
    /\ pc' = "delta"
    /\ UNCHANGED <<shape, chunks, pos, outputTokens, stopReason, currentToolCalls,
                   toolBlockCounter, readerLocked, caught, readFailed, raised,
                   finishSeen, firstRun>>
    /\ UNCHANGED reqVars
    /\ UNCHANGED utilVars
    /\ UNCHANGED handlerVars
    /\ UNCHANGED extVars

YieldMessageDelta ==
    /\ pc = "delta"
    /\ yielded' = Append(yielded, messageDelta(stopReason, outputTokens))
    /\ pc' = "mstop"
    /\ UNCHANGED <<shape, chunks, pos, outputTokens, stopReason, currentToolCalls,
                   toolBlockCounter, readerLocked, caught, readFailed, raised,
                   finishSeen, firstRun>>
    /\ UNCHANGED reqVars
    /\ UNCHANGED utilVars
    /\ UNCHANGED handlerVars
    /\ UNCHANGED extVars

YieldMessageStop ==
    /\ pc = "mstop"
    /\ yielded' = Append(yielded, messageStop)
    /\ pc' = "done"
    /\ UNCHANGED <<shape, chunks, pos, outputTokens, stopReason, currentToolCalls,
                   toolBlockCounter, readerLocked, caught, readFailed, raised,
                   finishSeen, firstRun>>
    /\ UNCHANGED reqVars
    /\ UNCHANGED utilVars
    /\ UNCHANGED handlerVars
    /\ UNCHANGED extVars

\* Plausible slip: the raw message is sent, unclassified.
CatchError_Raw ==
    /\ pc = "catch"
    /\ yielded' = Append(yielded, errorEvent(caught))
    /\ pc' = "done"
    /\ UNCHANGED <<shape, chunks, pos, outputTokens, stopReason, currentToolCalls,
                   toolBlockCounter, readerLocked, caught, readFailed, raised,
                   finishSeen, firstRun>>
    /\ UNCHANGED reqVars
    /\ UNCHANGED utilVars
    /\ UNCHANGED handlerVars
    /\ UNCHANGED extVars

\* catch (error): yield the error event.
CatchError ==
    /\ pc = "catch"
    /\ yielded' = Append(yielded, errorEvent(classifyError(caught)))
    /\ pc' = "done"
    /\ UNCHANGED <<shape, chunks, pos, outputTokens, stopReason, currentToolCalls,
                   toolBlockCounter, readerLocked, caught, readFailed, raised,
                   finishSeen, firstRun>>
    /\ UNCHANGED reqVars
    /\ UNCHANGED utilVars
    /\ UNCHANGED handlerVars
    /\ UNCHANGED extVars

NoFirstRun == [taken |-> FALSE, yielded |-> << >>, readFailed |-> FALSE]

\* Only the byte stream can carry a line that is not JSON; the iterable
\* delivers decoded objects.
Init ==
    /\ shape \in Shapes
    /\ chunks \in SeqsUpTo(IF shape = "stream" THEN ChunkSet \cup {Garbled} ELSE ChunkSet,
                            MaxChunks)
    /\ ConvInit
    /\ firstRun = NoFirstRun
    /\ ReqIdle
    /\ UtilIdle
    /\ HandlerIdle
    /\ ExtIdle

Next ==
    \/ YieldMessageStart
    \/ YieldContentBlockStart
    \/ NextChunk
    \/ ReadStream
    \/ ReadFails
    \/ YieldBlockStop
    \/ YieldToolStops
    \/ YieldMessageDelta
    \/ YieldMessageStop
    \/ CatchError

Spec == Init /\ [][Next]_vars

(***************************************************************************)
(* ToolSpec: the same converter fed tool-call fragments.                   *)
(***************************************************************************)
ToolInit ==
    /\ shape \in Shapes
    /\ chunks \in SeqsUpTo(ToolChunkSet, MaxChunks)
    /\ ConvInit
    /\ firstRun = NoFirstRun
    /\ ReqIdle
    /\ UtilIdle
    /\ HandlerIdle
    /\ ExtIdle

ToolSpec == ToolInit /\ [][Next]_vars

(***************************************************************************)
(* EquivSpec: the same chunks converted twice, first supplied as decoded   *)
(* objects, then as the SSE byte stream.                                   *)
(***************************************************************************)
Rerun ==
    /\ pc = "done"
    /\ shape = "iterable"
    /\ ~firstRun.taken
    /\ firstRun' = [taken |-> TRUE, yielded |-> yielded, readFailed |-> readFailed]
    /\ shape' = "stream"
    /\ pos' = 0
    /\ pc' = "start"
    /\ yielded' = << >>
    /\ outputTokens' = 0
    /\ stopReason' = "end_turn"
    /\ currentToolCalls' = << >>
    /\ toolBlockCounter' = 0
    /\ readerLocked' = FALSE
    /\ caught' = << >>
    /\ readFailed' = FALSE
    /\ raised' = FALSE
    /\ finishSeen' = FALSE
    /\ UNCHANGED chunks
    /\ UNCHANGED reqVars
    /\ UNCHANGED utilVars
    /\ UNCHANGED handlerVars
    /\ UNCHANGED extVars

EquivInit ==
    /\ shape = "iterable"
    /\ chunks \in SeqsUpTo(ChunkSet, MaxChunks)
    /\ ConvInit
    /\ firstRun = NoFirstRun
    /\ ReqIdle
    /\ UtilIdle
    /\ HandlerIdle
    /\ ExtIdle

EquivNext == Next \/ Rerun

EquivSpec == EquivInit /\ [][EquivNext]_vars

(***************************************************************************)
(* SentinelSpec: the converter on upstreams whose byte stream may carry    *)
(* "data: [DONE]" before further lines.  FairSentinelSpec adds that the    *)
(* consumer keeps pulling and every read of the finite upstream settles:   *)
(* a step of the generator that can be taken is taken.                     *)
(***************************************************************************)
SentinelInit ==
    /\ shape \in Shapes
    /\ chunks \in SeqsUpTo(IF shape = "stream" THEN ChunkSet \cup { Sentinel } ELSE ChunkSet,
                            MaxChunks)
    /\ ConvInit
    /\ firstRun = NoFirstRun
    /\ ReqIdle
    /\ UtilIdle
    /\ HandlerIdle
    /\ ExtIdle

SentinelSpec == SentinelInit /\ [][Next]_vars

\* The chunks without tool-call fragments; those add stop events to the
\* closing loop and no step of their own.
PlainChunks == { NoChoices, EmptyChoices, TextChunk, FinLength, TextFinStop }

FairSentinelInit ==
    /\ shape \in Shapes
    /\ chunks \in SeqsUpTo(IF shape = "stream" THEN PlainChunks \cup { Sentinel }
                            ELSE PlainChunks, MaxChunks)
    /\ ConvInit
    /\ firstRun = NoFirstRun
    /\ ReqIdle
    /\ UtilIdle
    /\ HandlerIdle
    /\ ExtIdle

FairSentinelSpec == FairSentinelInit /\ [][Next]_vars /\ WF_vars(Next)

(***************************************************************************)
(* SplitSpec: the same upstream bytes read twice, first delivered by one   *)
(* read, then cut into reads at arbitrary places.  Each read is decoded    *)
(* and split at '\n' on its own; nothing is carried from one read to the   *)
(* next.                                                                   *)
(***************************************************************************)
\* The head of a line cut inside its JSON payload: it starts with "data:",
\* is not "[DONE]" and JSON.parse rejects it.
HeadFragment == [done |-> FALSE, chunk |-> Garbled]

\* One read holding every line of the body.
ReadWhole ==
    /\ ReadStream
    /\ pc = "loop" => (pc' = "stop0" \/ pos' = Len(SSELines(chunks)))

\* A read that ends inside line pos + k + 1: k whole lines, then the head
\* of the cut line.  The tail opens the following read; it does not start
\* with "data:", so the for loop passes over it without effect, and the
\* cut line is consumed here.
ReadSplit ==
    /\ pc = "loop"
    /\ shape = "stream"
    /\ LET lines == SSELines(chunks) IN
       \E k \in 0..(Len(lines) - pos - 1) :
            /\ pos' = pos + k + 1
            /\ SetLocal(ProcessLines(Local,
                   SubSeq(lines, pos + 1, pos + k) \o << HeadFragment >>, 1))
    /\ UNCHANGED <<pc, readerLocked, shape, chunks, caught, readFailed, firstRun>>
    /\ UNCHANGED reqVars
    /\ UNCHANGED utilVars
    /\ UNCHANGED handlerVars
    /\ UNCHANGED extVars

\* The same body converted again from the start.
RerunReads ==
    /\ pc = "done"
    /\ shape = "stream"
    /\ ~firstRun.taken
    /\ firstRun' = [taken |-> TRUE, yielded |-> yielded, readFailed |-> readFailed]
    /\ pos' = 0
    /\ pc' = "start"
    /\ yielded' = << >>
    /\ outputTokens' = 0
    /\ stopReason' = "end_turn"
    /\ currentToolCalls' = << >>
    /\ toolBlockCounter' = 0
    /\ readerLocked' = FALSE
    /\ caught' = << >>
    /\ readFailed' = FALSE
    /\ raised' = FALSE
    /\ finishSeen' = FALSE
    /\ UNCHANGED <<shape, chunks>>
    /\ UNCHANGED reqVars
    /\ UNCHANGED utilVars
    /\ UNCHANGED handlerVars
    /\ UNCHANGED extVars

SplitInit ==
    /\ shape = "stream"
    /\ chunks \in SeqsUpTo(ChunkSet, MaxChunks)
    /\ ConvInit
    /\ firstRun = NoFirstRun
    /\ ReqIdle
    /\ UtilIdle
    /\ HandlerIdle
    /\ ExtIdle

SplitNext ==
    \/ YieldMessageStart
    \/ YieldContentBlockStart
    \/ ~firstRun.taken /\ ReadWhole
    \/ firstRun.taken /\ ReadStream
    \/ firstRun.taken /\ ReadSplit
    \/ YieldBlockStop
    \/ YieldToolStops
    \/ YieldMessageDelta
    \/ YieldMessageStop
    \/ RerunReads

SplitSpec == SplitInit /\ [][SplitNext]_vars

(***************************************************************************)
(* Source requests.  A text is a sequence of one-character tokens, so that *)
(* joins, truncations and serialized lengths are computed.                 *)
(***************************************************************************)
MaxMessages == 3

TextBlock(t) ==
    [type |-> "text", text |-> t, id |-> None, hasContent |-> FALSE, content |-> << >>]

ImageBlock ==
    [type |-> "image", text |-> << >>, id |-> None, hasContent |-> FALSE, content |-> << >>]

\* { type: 'tool_use', id, name: 'f', input: {} }
ToolUse(id) ==
    [type |-> "tool_use", text |-> << >>, id |-> id, hasContent |-> FALSE, content |-> << >>]

\* { type: 'tool_result', tool_use_id: id, content: c }
ToolResult(id, c) ==
    [type |-> "tool_result", text |-> << >>, id |-> id, hasContent |-> TRUE, content |-> c]

\* { type: 'tool_result', tool_use_id: id }
ToolResultNoContent(id) ==
    [type |-> "tool_result", text |-> << >>, id |-> id, hasContent |-> FALSE, content |-> << >>]

StrMsg(role, t) == [role |-> role, isString |-> TRUE, text |-> t, blocks |-> << >>]

BlockMsg(role, blocks) == [role |-> role, isString |-> FALSE, text |-> << >>, blocks |-> blocks]

IsToolUse(b) == b.type = "tool_use"

IsToolResult(b) == b.type = "tool_result"

IsText(b) == b.type = "text"

(***************************************************************************)
(* Destination messages.                                                   *)
(***************************************************************************)
StringContent(t) == [kind |-> "string", text |-> t, parts |-> << >>]

NullContent == [kind |-> "null", text |-> << >>, parts |-> << >>]

AbsentContent == [kind |-> "absent", text |-> << >>, parts |-> << >>]

PartsContent(parts) == [kind |-> "parts", text |-> << >>, parts |-> parts]

OpenAIMessage(role, content, toolCalls, toolCallId) ==
    [role |-> role, content |-> content, tool_calls |-> toolCalls, tool_call_id |-> toolCallId]

\* { id, type: 'function', function: { name, arguments: '{}' } }
ToolCall(block) == [id |-> block.id, name |-> "f", arguments |-> <<"{", "}">>]

ToolMessage(toolCallId, content) ==
    OpenAIMessage("tool", StringContent(content), << >>, toolCallId)

Map(s, F(_)) == [k \in 1..Len(s) |-> F(s[k])]

RECURSIVE Join(_, _)
Join(texts, sep) ==
    IF texts = << >> THEN << >>
    ELSE IF Len(texts) = 1 THEN texts[1]
    ELSE texts[1] \o sep \o Join(Tail(texts), sep)

Ids(blocks) == { blocks[k].id : k \in 1..Len(blocks) }

\* new Set(ids): iteration follows first insertion.
RECURSIVE SetOrder(_, _)
SetOrder(ids, seen) ==
    IF ids = << >> THEN << >>
    ELSE IF ids[1] \in seen THEN SetOrder(Tail(ids), seen)
    ELSE << ids[1] >> \o SetOrder(Tail(ids), seen \cup { ids[1] })

(***************************************************************************)
(* request-converter.ts                                                    *)
(***************************************************************************)
PlaceholderText == << "Tool execution completed without explicit result." >>

formatToolResultContent(result) ==
    IF ~result.hasContent THEN << "No content provided" >> ELSE result.content

IsTextPart(block) == block.type = "text" /\ block.text # << >>

IsContentPart(block) == IsTextPart(block) \/ block.type = "image"

ContentPart(block) ==
    IF block.type = "text" THEN [type |-> "text", text |-> block.text]
    ELSE [type |-> "image_url", text |-> << >>]

TextOf(block) == block.text

convertClaudeMessage(message) ==
    IF message.isString
    THEN OpenAIMessage(message.role, StringContent(message.text), << >>, None)
    ELSE IF message.role = "assistant"
    THEN LET textParts == Map(SelectSeq(message.blocks, IsTextPart), TextOf)
             toolCalls == Map(SelectSeq(message.blocks, IsToolUse), ToolCall)
         IN  OpenAIMessage("assistant",
                 IF Len(textParts) > 0 THEN StringContent(Join(textParts, << >>))
                                       ELSE NullContent,
                 toolCalls, None)
    ELSE LET content == Map(SelectSeq(message.blocks, IsContentPart), ContentPart)
         IN  OpenAIMessage(message.role,
                 IF Len(content) = 0 THEN StringContent(<< >>)
                 ELSE IF Len(content) = 1 /\ content[1].type = "text"
                      THEN StringContent(content[1].text)
                      ELSE PartsContent(content),
                 << >>, None)

Placeholder(toolCallId) == ToolMessage(toolCallId, PlaceholderText)

Placeholders(toolCallIds) == Map(toolCallIds, Placeholder)

\* Plausible slip: the unanswered calls are forgotten once some result exists.
MissingIds_None(toolCallIds, respondedToolIds) == << >>

\* for (const toolCallId of toolCallIds) if (!respondedToolIds.has(toolCallId))
MissingIds(toolCallIds, respondedToolIds) ==
    SelectSeq(toolCallIds, LAMBDA id : id \notin respondedToolIds)

ToolResultMessage(result) == ToolMessage(result.id, formatToolResultContent(result))

\* The tool messages pushed after assistant message i, and whether message
\* i + 1 is skipped.
Reconcile(toolCallIds, messages, idx) ==
    IF idx + 1 < Len(messages)
       /\ messages[idx + 2].role = "user"
       /\ ~messages[idx + 2].isString
       /\ Len(SelectSeq(messages[idx + 2].blocks, IsToolResult)) > 0
    THEN LET toolResults == SelectSeq(messages[idx + 2].blocks, IsToolResult)
         IN  [msgs |-> Map(toolResults, ToolResultMessage)
                       \o Placeholders(MissingIds(toolCallIds, Ids(toolResults))),
              skip |-> TRUE]
    ELSE [msgs |-> Placeholders(toolCallIds), skip |-> FALSE]

SystemPresent == request.hasSystem /\ request.system # << >>

PushSystem ==
    /\ rpc = "system"
    /\ openaiRequest' = IF SystemPresent
                        THEN << OpenAIMessage("system", StringContent(request.system), << >>, None) >>
                        ELSE << >>
    /\ origin' = IF SystemPresent THEN << 0 >> ELSE << >>
    /\ msgIndex' = 0
    /\ rpc' = "loop"
    /\ UNCHANGED <<request, convertedMessages, currentSize, finalMessages>>
    /\ UNCHANGED streamVars
    /\ UNCHANGED utilVars
    /\ UNCHANGED handlerVars
    /\ UNCHANGED extVars

\* while (i < messages.length): one iteration.
ConvertStep ==
    /\ rpc = "loop"
    /\ msgIndex < Len(request.messages)
    /\ LET message == request.messages[msgIndex + 1]
           openaiMessage == convertClaudeMessage(message)
           rec == IF message.role = "assistant" /\ Len(openaiMessage.tool_calls) > 0
                  THEN Reconcile(SetOrder(Map(openaiMessage.tool_calls, LAMBDA tc : tc.id), {}),
                                 request.messages, msgIndex)
                  ELSE [msgs |-> << >>, skip |-> FALSE]
       IN  /\ openaiRequest' = Append(openaiRequest, openaiMessage) \o rec.msgs
           /\ origin' = origin \o [k \in 1..(1 + Len(rec.msgs)) |-> msgIndex + 1]
           /\ msgIndex' = IF rec.skip THEN msgIndex + 2 ELSE msgIndex + 1
    /\ UNCHANGED <<request, rpc, convertedMessages, currentSize, finalMessages>>
    /\ UNCHANGED streamVars
    /\ UNCHANGED utilVars
    /\ UNCHANGED handlerVars
    /\ UNCHANGED extVars

ReturnRequest ==
    /\ rpc = "loop"
    /\ msgIndex >= Len(request.messages)
    /\ rpc' = "done"
    /\ UNCHANGED <<request, msgIndex, openaiRequest, origin, convertedMessages,
                   currentSize, finalMessages>>
    /\ UNCHANGED streamVars
    /\ UNCHANGED utilVars
    /\ UNCHANGED handlerVars
    /\ UNCHANGED extVars

TextA == << "a" >>

ReqMessageSet ==
    { StrMsg("user", TextA),
      StrMsg("assistant", TextA),
      BlockMsg("assistant", << TextBlock(TextA), ToolUse("t1") >>),
      BlockMsg("assistant", << ToolUse("t1"), ToolUse("t2") >>),
      BlockMsg("assistant", << TextBlock(TextA), TextBlock(TextA) >>),
      BlockMsg("user", << ToolResult("t1", << "r" >>) >>),
      BlockMsg("user", << ToolResult("t2", << "q" >>), ToolResult("t1", << "r" >>) >>),
      BlockMsg("user", << ToolResultNoContent("t2"), TextBlock(TextA) >>),
      BlockMsg("user", << ToolResult("t3", << "r" >>) >>),
      BlockMsg("user", << ToolResult("t1", << "r" >>), ToolResult("t1", << "q" >>) >>),
      BlockMsg("user", << TextBlock(TextA), ImageBlock >>),
      BlockMsg("assistant", << ToolResult("t1", << "r" >>) >>) }

Systems == { [hasSystem |-> FALSE, system |-> << >>], [hasSystem |-> TRUE, system |-> << "s" >>] }

ReqInit ==
    /\ \E sys \in Systems, ms \in SeqsUpTo(ReqMessageSet, MaxMessages) :
          request = [system |-> sys.system, hasSystem |-> sys.hasSystem, messages |-> ms]
    /\ rpc = "system"
    /\ msgIndex = 0
    /\ openaiRequest = << >>
    /\ origin = << >>
    /\ convertedMessages = << >>
    /\ currentSize = 0
    /\ finalMessages = << >>
    /\ shape = "iterable"
    /\ chunks = << >>
    /\ ConvInit
    /\ firstRun = NoFirstRun
    /\ UtilIdle
    /\ HandlerIdle
    /\ ExtIdle

ReqNext ==
    \/ PushSystem
    \/ ConvertStep
    \/ ReturnRequest

ReqSpec == ReqInit /\ [][ReqNext]_vars

(***************************************************************************)
(* The budgeted convertClaudeToOpenAI and its helpers.  Lengths are those  *)
(* of the JSON text; the two limits are scaled to the texts of the model.  *)
(***************************************************************************)
\* MAX_CONTENT_LENGTH = 200000, scaled.
MAX_CONTENT_LENGTH == 4

\* MAX_TOTAL_REQUEST_SIZE = 300000, scaled.
MAX_TOTAL_REQUEST_SIZE == 248

TruncatedMark == "... [truncated]"

\* content.length of one token.
Chars(t) == IF t = TruncatedMark THEN 15 ELSE 1

RECURSIVE StrLength(_)
StrLength(text) == IF text = << >> THEN 0 ELSE Chars(text[1]) + StrLength(Tail(text))

truncateContent(content) ==
    IF StrLength(content) <= MAX_CONTENT_LENGTH THEN content
    ELSE Append(SubSeq(content, 1, MAX_CONTENT_LENGTH), TruncatedMark)

\* Length of JSON.stringify of a string: the quotes, and "\n" escaped.
RECURSIVE JsonStringLength(_)
JsonStringLength(text) ==
    IF text = << >> THEN 2
    ELSE (IF text[1] = "\n" THEN 2 ELSE Chars(text[1])) + JsonStringLength(Tail(text))

RoleLength(role) ==
    CASE role = "assistant" -> 9
      [] role = "system" -> 6
      [] OTHER -> 4

\* {"id":"t1","type":"function","function":{"name":"f","arguments":"{}"}}
ToolCallSize(tc) == 65 + 2 + 1 + Len(tc.arguments)

RECURSIVE ToolCallsSize(_)
ToolCallsSize(tcs) ==
    IF tcs = << >> THEN 0
    ELSE ToolCallSize(tcs[1]) + (IF Len(tcs) > 1 THEN 1 ELSE 0) + ToolCallsSize(Tail(tcs))

\* JSON.stringify(message).length
MessageSize(message) ==
    1 + 9 + RoleLength(message.role)
      + (IF message.tool_call_id # None THEN 16 + 2 + 2 ELSE 0)
      + (IF message.content.kind = "string"
         THEN 11 + JsonStringLength(message.content.text) ELSE 0)
      + (IF message.tool_calls # << >>
         THEN 15 + ToolCallsSize(message.tool_calls) + 1 ELSE 0)
      + 1

\* JSON.stringify({...openaiRequest, messages: []}).length for
\* {"model":"gpt-4o","messages":[],"max_tokens":100,"stream":false}
SkeletonSize == 64

MappedRole(message) == IF message.role = "assistant" THEN "assistant" ELSE "user"

TextOrEmpty(block) == block.text

\* typeof content.content === 'string' ? content.content : safeJsonStringify(content.content)
ResultContent(block) == IF block.hasContent THEN block.content ELSE << "{", "}" >>

BudgetToolMessage(block) == ToolMessage(block.id, truncateContent(ResultContent(block)))

\* The destination messages of one source message.
ConvertOne(message) ==
    IF message.isString
    THEN << OpenAIMessage(MappedRole(message), StringContent(truncateContent(message.text)),
                          << >>, None) >>
    ELSE LET textContents == Map(SelectSeq(message.blocks, IsText), TextOrEmpty)
             toolCalls == Map(SelectSeq(message.blocks, IsToolUse), ToolCall)
             toolResults == SelectSeq(message.blocks, IsToolResult)
         IN  (IF Len(textContents) > 0 \/ Len(toolCalls) > 0
              THEN << OpenAIMessage(MappedRole(message),
                          IF Len(textContents) > 0
                          THEN StringContent(truncateContent(Join(textContents, << "\n" >>)))
                          ELSE AbsentContent,
                          toolCalls, None) >>
              ELSE << >>)
             \o Map(toolResults, BudgetToolMessage)

RECURSIVE convertMessages(_)
convertMessages(claudeMessages) ==
    IF claudeMessages = << >> THEN << >>
    ELSE ConvertOne(claudeMessages[1]) \o convertMessages(Tail(claudeMessages))

\* The system message is pushed, the messages are converted and the size
\* of the skeleton is taken.
BudgetStart ==
    /\ rpc = "system"
    /\ openaiRequest' = IF SystemPresent
                        THEN << OpenAIMessage("system",
                                    StringContent(truncateContent(request.system)), << >>, None) >>
                        ELSE << >>
    /\ convertedMessages' = convertMessages(request.messages)
    /\ currentSize' = SkeletonSize
    /\ finalMessages' = << >>
    /\ msgIndex' = 0
    /\ rpc' = "budget"
    /\ UNCHANGED <<request, origin>>
    /\ UNCHANGED streamVars
    /\ UNCHANGED utilVars
    /\ UNCHANGED handlerVars
    /\ UNCHANGED extVars

\* if (currentSize + messageSize > MAX_TOTAL_REQUEST_SIZE)
Overflows(size, messageSize) == size + messageSize > MAX_TOTAL_REQUEST_SIZE

\* for (const message of convertedMessages): one iteration that pushes.
BudgetAdd ==
    /\ rpc = "budget"
    /\ msgIndex < Len(convertedMessages)
    /\ LET message == convertedMessages[msgIndex + 1] IN
       /\ ~Overflows(currentSize, MessageSize(message))
       /\ finalMessages' = Append(finalMessages, message)
       /\ currentSize' = currentSize + MessageSize(message)
    /\ msgIndex' = msgIndex + 1
    /\ UNCHANGED <<request, rpc, openaiRequest, origin, convertedMessages>>
    /\ UNCHANGED streamVars
    /\ UNCHANGED utilVars
    /\ UNCHANGED handlerVars
    /\ UNCHANGED extVars

\* The loop ends, by exhaustion or by the break, and
\* openaiRequest.messages = finalMessages.
BudgetReturn ==
    /\ rpc = "budget"
    /\ \/ msgIndex >= Len(convertedMessages)
       \/ /\ msgIndex < Len(convertedMessages)
          /\ Overflows(currentSize, MessageSize(convertedMessages[msgIndex + 1]))
    /\ openaiRequest' = finalMessages
    /\ rpc' = "done"
    /\ UNCHANGED <<request, msgIndex, origin, convertedMessages, currentSize, finalMessages>>
    /\ UNCHANGED streamVars
    /\ UNCHANGED utilVars
    /\ UNCHANGED handlerVars
    /\ UNCHANGED extVars

LongText == << "a", "a", "a", "a" >>

OverlongText == << "a", "a", "a", "a", "a" >>

BudgetMessageSet ==
    { StrMsg("user", TextA),
      StrMsg("user", LongText),
      StrMsg("user", OverlongText),
      StrMsg("assistant", TextA),
      BlockMsg("assistant", << ToolUse("t1") >>),
      BlockMsg("assistant", << TextBlock(TextA), TextBlock(TextA) >>),
      BlockMsg("user", << ToolResult("t1", << "r" >>) >>),
      BlockMsg("user", << ToolResult("t1", << "r" >>), TextBlock(TextA) >>) }

BudgetInit ==
    /\ \E sys \in Systems, ms \in SeqsUpTo(BudgetMessageSet, MaxMessages) :
          request = [system |-> sys.system, hasSystem |-> sys.hasSystem, messages |-> ms]
    /\ rpc = "system"
    /\ msgIndex = 0
    /\ openaiRequest = << >>
    /\ origin = << >>
    /\ convertedMessages = << >>
    /\ currentSize = 0
    /\ finalMessages = << >>
    /\ shape = "iterable"
    /\ chunks = << >>
    /\ ConvInit
    /\ firstRun = NoFirstRun
    /\ UtilIdle
    /\ HandlerIdle
    /\ ExtIdle

BudgetNext ==
    \/ BudgetStart
    \/ BudgetAdd
    \/ BudgetReturn

BudgetSpec == BudgetInit /\ [][BudgetNext]_vars

(***************************************************************************)
(* The streaming converter is not running.                                 *)
(***************************************************************************)
StreamIdle ==
    /\ shape = "iterable"
    /\ chunks = << >>
    /\ pos = 0
    /\ pc = "idle"
    /\ yielded = << >>
    /\ outputTokens = 0
    /\ stopReason = "end_turn"
    /\ currentToolCalls = << >>
    /\ toolBlockCounter = 0
    /\ readerLocked = FALSE
    /\ caught = << >>
    /\ readFailed = FALSE
    /\ raised = FALSE
    /\ finishSeen = FALSE
    /\ firstRun = NoFirstRun

(***************************************************************************)
(* convertOpenAIToClaudeResponse (shared-converters).                      *)
(***************************************************************************)
MaxToolCalls == 2

\* message.content: null, absent, or a string.
NullText == [kind |-> "null", text |-> << >>]

AbsentText == [kind |-> "absent", text |-> << >>]

StringText(t) == [kind |-> "string", text |-> t]

\* One entry of message.tool_calls; id and function.name may be absent,
\* absent or empty function.arguments are << >>.
ResponseToolCall(type, id, name, arguments) ==
    [type |-> type, id |-> id, name |-> name, arguments |-> arguments]

\* usage: absent, or { prompt_tokens: 3, completion_tokens: 5 }.
OpenAIResponse(choices, content, toolCalls, finishReason, hasUsage) ==
    [choices |-> choices, content |-> content, tool_calls |-> toolCalls,
     finish_reason |-> finishReason, hasUsage |-> hasUsage]

TextOut(t) == [type |-> "text", text |-> t, id |-> None, name |-> None,
               input |-> [kind |-> "none", value |-> << >>]]

ToolUseOut(id, name, input) ==
    [type |-> "tool_use", text |-> << >>, id |-> id, name |-> name, input |-> input]

\* Plausible slip: the arguments are never parsed.
ParseArguments_Raw(arguments) == [kind |-> "raw_arguments", value |-> arguments]

\* JSON.parse(functionData.arguments || '{}'), or { raw_arguments } when it throws.
ParseArguments(arguments) ==
    LET text == IF arguments = << >> THEN << "{", "}" >> ELSE arguments IN
    IF JSONParses(text)
    THEN [kind |-> "object", value |-> SelectSeq(text, NotWs)]
    ELSE [kind |-> "raw_arguments", value |-> arguments]

\* The block of tool call k; fallback is the generated id.
ToolUseBlock(toolCall, fallback) ==
    ToolUseOut(IF toolCall.id # None THEN toolCall.id ELSE fallback,
               IF toolCall.name # None THEN toolCall.name ELSE "",
               ParseArguments(toolCall.arguments))

RECURSIVE ToolUseBlocks(_, _, _)
ToolUseBlocks(toolCalls, k, fallbacks) ==
    IF k > Len(toolCalls) THEN << >>
    ELSE (IF toolCalls[k].type = "function"
          THEN << ToolUseBlock(toolCalls[k], fallbacks[k]) >> ELSE << >>)
         \o ToolUseBlocks(toolCalls, k + 1, fallbacks)

\* Plausible slip: the empty list is returned as it is.
EnsureContent_Skip(contentBlocks) == contentBlocks

\* if (contentBlocks.length === 0) contentBlocks.push({ type: 'text', text: '' })
EnsureContent(contentBlocks) ==
    IF Len(contentBlocks) = 0 THEN << TextOut(<< >>) >> ELSE contentBlocks

convertOpenAIToClaudeResponse(openaiResponse, fallbacks) ==
    IF openaiResponse.choices # "one"
    THEN [done |-> TRUE, threw |-> TRUE, value |-> << >>]
    ELSE [done |-> TRUE, threw |-> FALSE, value |->
            [content |-> EnsureContent(
                (IF openaiResponse.content.kind = "string"
                 THEN << TextOut(openaiResponse.content.text) >> ELSE << >>)
                \o ToolUseBlocks(openaiResponse.tool_calls, 1, fallbacks)),
             stop_reason |-> mapOpenAIFinishReason(openaiResponse.finish_reason),
             input_tokens |-> IF openaiResponse.hasUsage THEN 3 ELSE 0,
             output_tokens |-> IF openaiResponse.hasUsage THEN 5 ELSE 0]]

\* tool_${Math.random().toString(36).substr(2, 9)}
GeneratedIds == { "tool_r1", "tool_r2" }

Apply_convertOpenAIToClaudeResponse ==
    /\ call.fn = "convertOpenAIToClaudeResponse"
    /\ ~ret.done
    /\ \E fallbacks \in [1..MaxToolCalls -> GeneratedIds] :
          ret' = convertOpenAIToClaudeResponse(call.arg, fallbacks)
    /\ UNCHANGED call
    /\ UNCHANGED streamVars
    /\ UNCHANGED reqVars
    /\ UNCHANGED handlerVars
    /\ UNCHANGED extVars

Apply_mapOpenAIFinishReason ==
    /\ call.fn = "mapOpenAIFinishReason"
    /\ ~ret.done
    /\ ret' = [done |-> TRUE, threw |-> FALSE, value |-> mapOpenAIFinishReason(call.arg)]
    /\ UNCHANGED call
    /\ UNCHANGED streamVars
    /\ UNCHANGED reqVars
    /\ UNCHANGED handlerVars
    /\ UNCHANGED extVars

(***************************************************************************)
(* ModelManager.getOpenAIModel.  A model name is a sequence of fragments;  *)
(* config holds the three upstream model names of the environment.         *)
(***************************************************************************)
MaxNameLen == 2

config == [smallModel |-> "small", middleModel |-> "middle", bigModel |-> "big",
           maxTokensLimit |-> 2]

\* Plausible slip: the name is not lower-cased.
getOpenAIModel_CaseSensitive(claudeModel) ==
    IF Includes(claudeModel, << "haiku" >>) THEN config.smallModel
    ELSE IF Includes(claudeModel, << "opus" >>) THEN config.bigModel
    ELSE IF Includes(claudeModel, << "sonnet" >>) THEN config.middleModel
    ELSE config.bigModel

getOpenAIModel(claudeModel) ==
    LET model == LowerMsg(claudeModel) IN
    IF Includes(model, << "haiku" >>) THEN config.smallModel
    ELSE IF Includes(model, << "opus" >>) THEN config.bigModel
    ELSE IF Includes(model, << "sonnet" >>) THEN config.middleModel
    ELSE config.bigModel

Apply_getOpenAIModel ==
    /\ call.fn = "getOpenAIModel"
    /\ ~ret.done
    /\ ret' = [done |-> TRUE, threw |-> FALSE, value |-> getOpenAIModel(call.arg)]
    /\ UNCHANGED call
    /\ UNCHANGED streamVars
    /\ UNCHANGED reqVars
    /\ UNCHANGED handlerVars
    /\ UNCHANGED extVars

NameFragments == { "claude-", "haiku", "Haiku", "opus", "OPUS", "sonnet", "Sonnet", "gpt" }

ModelNames == SeqsUpTo(NameFragments, MaxNameLen)

(***************************************************************************)
(* OpenAIErrorClassifier.classifyError called on an upstream message.      *)
(***************************************************************************)
MaxWords == 3

Apply_classifyError ==
    /\ call.fn = "classifyError"
    /\ ~ret.done
    /\ ret' = [done |-> TRUE, threw |-> FALSE, value |-> classifyError(call.arg)]
    /\ UNCHANGED call
    /\ UNCHANGED streamVars
    /\ UNCHANGED reqVars
    /\ UNCHANGED handlerVars
    /\ UNCHANGED extVars

ErrorWords ==
    { "Unauthorized", "Rate", "Limit", "quota", "exceeded", "model", "not", "found",
      "context_length_exceeded", "Timeout", "Error" }

ErrorMessages == SeqsUpTo(ErrorWords, MaxWords)

(***************************************************************************)
(* TokenCounter.countTokens.  A system prompt or a message content is      *)
(* absent / null, a string, or a list of blocks; a block carries a text or *)
(* none (an image, a tool_use, a tool_result).                             *)
(***************************************************************************)
Text(kind, text, blocks) == [kind |-> kind, text |-> text, blocks |-> blocks]

\* if (block.text) totalChars += block.text.length, over the blocks.
RECURSIVE BlockChars(_)
BlockChars(blocks) ==
    IF blocks = << >> THEN 0
    ELSE (IF blocks[1].text # None /\ blocks[1].text # << >> THEN Len(blocks[1].text) ELSE 0)
         + BlockChars(Tail(blocks))

ContentChars(content) ==
    IF content.kind = "string" THEN Len(content.text)
    ELSE IF content.kind = "blocks" THEN BlockChars(content.blocks)
    ELSE 0

RECURSIVE MessageChars(_)
MessageChars(messages) ==
    IF messages = << >> THEN 0
    ELSE ContentChars(messages[1]) + MessageChars(Tail(messages))

Max(a, b) == IF a >= b THEN a ELSE b

\* Plausible slip: the floor of the estimate is returned without the minimum.
EstimatedTokens_NoMinimum(totalChars) == totalChars \div 4

\* Math.max(1, Math.floor(totalChars / 4))
EstimatedTokens(totalChars) == Max(1, totalChars \div 4)

countTokens(countRequest) ==
    [input_tokens |->
        EstimatedTokens(ContentChars(countRequest.system) + MessageChars(countRequest.messages))]

Apply_countTokens ==
    /\ call.fn = "countTokens"
    /\ ~ret.done
    /\ ret' = [done |-> TRUE, threw |-> FALSE, value |-> countTokens(call.arg)]
    /\ UNCHANGED call
    /\ UNCHANGED streamVars
    /\ UNCHANGED reqVars
    /\ UNCHANGED handlerVars
    /\ UNCHANGED extVars

CountBlocks ==
    { << >>,
      << [text |-> << "a", "b", "c" >>] >>,
      << [text |-> << "a", "b", "c" >>], [text |-> None], [text |-> << >>],
         [text |-> << "a", "b", "c", "d", "e" >>] >> }

CountTexts == { << >>, << "a", "b", "c" >>, << "a", "b", "c", "d", "e" >> }

CountContents ==
    { Text("null", << >>, << >>) }
    \cup { Text("string", t, << >>) : t \in CountTexts }
    \cup { Text("blocks", << >>, bs) : bs \in CountBlocks }

CountRequests ==
    { [system |-> sys, messages |-> ms] :
        sys \in CountContents, ms \in SeqsUpTo(CountContents, MaxMessages) }

\* finish_reason values: the five of the table, an unknown one, none.
FinishReasons ==
    { "stop", "length", "tool_calls", "function_call", "content_filter", "eos", None }

ResponseToolCalls ==
    { ResponseToolCall("function", "c1", "f", << "{", "k", "}" >>),
      ResponseToolCall("function", None, None, << "{", "k" >>),
      ResponseToolCall("custom", "c2", "g", << >>) }

Responses ==
    { OpenAIResponse("one", c, tcs, fr, u) :
        c \in { NullText, AbsentText, StringText(<< >>), StringText(TextA) },
        tcs \in SeqsUpTo(ResponseToolCalls, MaxToolCalls),
        fr \in FinishReasons, u \in BOOLEAN }
    \cup { OpenAIResponse("empty", NullText, << >>, None, FALSE),
           OpenAIResponse("missing", NullText, << >>, None, FALSE) }

(***************************************************************************)
(* The credential of an outbound call.  A header value, like the key of    *)
(* the client, is undefined or a string; a string is a sequence of parts,  *)
(* the scheme prefix "Bearer " being one part.                             *)
(***************************************************************************)
NoHeader == [present |-> FALSE, text |-> << >>]

HeaderValue(t) == [present |-> TRUE, text |-> t]

\* JavaScript truthiness of string | undefined | null.
Truthy(h) == h.present /\ h.text # << >>

\* text.replace('Bearer ', ''): the first occurrence is removed.
RECURSIVE RemoveBearer(_)
RemoveBearer(t) ==
    IF t = << >> THEN << >>
    ELSE IF Head(t) = "Bearer " THEN Tail(t)
    ELSE << Head(t) >> \o RemoveBearer(Tail(t))

\* Plausible slip: the Authorization header is looked at first.
extractApiKey_BearerFirst(headers) ==
    IF Truthy(headers.authorization) /\ Head(headers.authorization.text) = "Bearer "
    THEN HeaderValue(RemoveBearer(headers.authorization.text))
    ELSE IF Truthy(headers.xApiKey) THEN headers.xApiKey
    ELSE NoHeader

extractApiKey(headers) ==
    IF Truthy(headers.xApiKey) THEN headers.xApiKey
    ELSE IF Truthy(headers.authorization) /\ Head(headers.authorization.text) = "Bearer "
    THEN HeaderValue(RemoveBearer(headers.authorization.text))
    ELSE NoHeader

\* The headers of the fetch of createChatCompletion(request, requestId, apiKey).
RequestHeaders(apiKey, clientKey, apiVersion) ==
    LET finalApiKey == IF Truthy(apiKey) THEN apiKey ELSE clientKey IN
    [ContentType   |-> HeaderValue(<< "application/json" >>),
     Authorization |-> IF Truthy(finalApiKey)
                       THEN HeaderValue(<< "Bearer " >> \o finalApiKey.text)
                       ELSE NoHeader,
     apiKey        |-> IF Truthy(finalApiKey) /\ Truthy(apiVersion)
                       THEN finalApiKey ELSE NoHeader]

\* The handler extracts the key, passes `openaiApiKey || undefined` and the
\* client issues the fetch; the value returned here is the headers sent.
Apply_createChatCompletion ==
    /\ call.fn = "createChatCompletion"
    /\ ~ret.done
    /\ LET openaiApiKey == extractApiKey(call.arg.headers)
           apiKey == IF Truthy(openaiApiKey) THEN openaiApiKey ELSE NoHeader
       IN  ret' = [done |-> TRUE, threw |-> FALSE,
                   value |-> RequestHeaders(apiKey, call.arg.clientKey, call.arg.apiVersion)]
    /\ UNCHANGED call
    /\ UNCHANGED streamVars
    /\ UNCHANGED reqVars
    /\ UNCHANGED handlerVars
    /\ UNCHANGED extVars

HeaderParts == { "Bearer ", "bearer ", "Basic ", "k1", "k2" }

HeaderValues == { NoHeader } \cup { HeaderValue(t) : t \in SeqsUpTo(HeaderParts, 2) }

KeyValues == { NoHeader, HeaderValue(<< >>), HeaderValue(<< "k1" >>), HeaderValue(<< "k3" >>) }

CredentialInputs ==
    { [headers |-> [xApiKey |-> x, authorization |-> a], clientKey |-> d, apiVersion |-> v] :
        x \in KeyValues, a \in HeaderValues,
        d \in { NoHeader, HeaderValue(<< >>), HeaderValue(<< "d" >>) },
        v \in { NoHeader, HeaderValue(<< "v" >>) } }

(***************************************************************************)
(* max_tokens on the way from the inbound request to the outbound one, in  *)
(* the three versions of the /v1/messages handler: the worker, the routes  *)
(* module and the earlier routes version kept in worker.ts.  max_tokens is *)
(* absent or a number; the converter copies it.                            *)
(***************************************************************************)
\* if (max_tokens && max_tokens > config.maxTokensLimit)
OverCeiling(max_tokens) ==
    max_tokens.present /\ max_tokens.value # 0 /\ max_tokens.value > config.maxTokensLimit

\* openaiRequest.max_tokens = config.maxTokensLimit
Clamp(max_tokens) ==
    IF OverCeiling(max_tokens)
    THEN [present |-> TRUE, value |-> config.maxTokensLimit] ELSE max_tokens

\* Plausible slip: the inbound value is not validated.
Rejects_Never(version, max_tokens) == FALSE

\* The 400 answer of the worker and of the routes module.
Rejects(version, max_tokens) == version \in { "worker", "routes" } /\ OverCeiling(max_tokens)

\* The max_tokens of the request handed to the client, if one is.
OutboundMaxTokens(version, max_tokens) ==
    IF Rejects(version, max_tokens)
    THEN [sent |-> FALSE, max_tokens |-> [present |-> FALSE, value |-> 0]]
    ELSE [sent |-> TRUE,
          max_tokens |-> IF version \in { "worker", "routes" }
                         THEN Clamp(max_tokens) ELSE max_tokens]

Apply_handleMessages ==
    /\ call.fn = "handleMessages"
    /\ ~ret.done
    /\ ret' = [done |-> TRUE, threw |-> FALSE,
               value |-> OutboundMaxTokens(call.arg.version, call.arg.max_tokens)]
    /\ UNCHANGED call
    /\ UNCHANGED streamVars
    /\ UNCHANGED reqVars
    /\ UNCHANGED handlerVars
    /\ UNCHANGED extVars

HandlerVersions == { "worker", "routes", "earlier" }

MaxTokensInputs ==
    { [version |-> v, max_tokens |-> m] :
        v \in HandlerVersions,
        m \in { [present |-> FALSE, value |-> 0] }
              \cup { [present |-> TRUE, value |-> n] : n \in 0..(config.maxTokensLimit + 2) } }

UtilInit ==
    /\ \/ \E r \in Responses : call = [fn |-> "convertOpenAIToClaudeResponse", arg |-> r]
       \/ \E fr \in FinishReasons : call = [fn |-> "mapOpenAIFinishReason", arg |-> fr]
       \/ \E n \in ModelNames : call = [fn |-> "getOpenAIModel", arg |-> n]
       \/ \E m \in ErrorMessages : call = [fn |-> "classifyError", arg |-> m]
       \/ \E r \in CountRequests : call = [fn |-> "countTokens", arg |-> r]
       \/ \E c \in CredentialInputs : call = [fn |-> "createChatCompletion", arg |-> c]
       \/ \E m \in MaxTokensInputs : call = [fn |-> "handleMessages", arg |-> m]
    /\ ret = NotReturned
    /\ StreamIdle
    /\ ReqIdle
    /\ HandlerIdle
    /\ ExtIdle

UtilNext ==
    \/ Apply_convertOpenAIToClaudeResponse
    \/ Apply_mapOpenAIFinishReason
    \/ Apply_getOpenAIModel
    \/ Apply_classifyError
    \/ Apply_countTokens
    \/ Apply_createChatCompletion
    \/ Apply_handleMessages

UtilSpec == UtilInit /\ [][UtilNext]_vars

(***************************************************************************)
(* POST /v1/messages: handleMessages of the worker and the route of the    *)
(* Hono application.  The inbound request records what the handler tests:  *)
(* whether the body parses, its declared size, max_tokens, whether the     *)
(* body has the model and messages the converter reads, and stream.        *)
(***************************************************************************)
Inbound(route, json, tooLarge, max_tokens, convertible, stream) ==
    [route |-> route, json |-> json, tooLarge |-> tooLarge, max_tokens |-> max_tokens,
     convertible |-> convertible, stream |-> stream]

jsonResponse(type, status) == [status |-> status, type |-> type]

\* What the caller receives for an HTTPException thrown by the route: the
\* framework renders it with its status and no error type, unless the
\* /v1/* middleware catches it and the message includes 'limit' (413).
HTTPException(status, mentionsLimit) ==
    { jsonResponse(None, status) }
    \cup (IF mentionsLimit THEN { jsonResponse("invalid_request_error", 413) } ELSE {})

\* catch (error) of the handler, for an error that is not a client error.
Unexpected ==
    IF inbound.route = "worker" THEN { jsonResponse("api_error", 500) }
    ELSE HTTPException(500, FALSE)

Answer(responses) ==
    /\ response' \in responses
    /\ hpc' = "answered"

\* parseRequestBody / c.req.json()
ParseBody ==
    /\ hpc = "parse"
    /\ IF inbound.route = "worker" /\ inbound.tooLarge
       THEN Answer({ jsonResponse("invalid_request_error", 413) })
       ELSE IF ~inbound.json
       THEN IF inbound.route = "worker"
            THEN Answer({ jsonResponse("invalid_request_error", 400) })
            ELSE Answer(Unexpected)
       ELSE hpc' = "validate" /\ UNCHANGED response
    /\ UNCHANGED <<inbound, fetches, frames>>
    /\ UNCHANGED streamVars
    /\ UNCHANGED reqVars
    /\ UNCHANGED utilVars
    /\ UNCHANGED extVars

\* if (max_tokens && max_tokens > maxTokensLimit)
ExceedsLimit ==
    /\ inbound.max_tokens.present
    /\ inbound.max_tokens.value # 0
    /\ inbound.max_tokens.value > config.maxTokensLimit

ValidateMaxTokens ==
    /\ hpc = "validate"
    /\ IF ExceedsLimit
       THEN IF inbound.route = "worker"
            THEN Answer({ jsonResponse("invalid_request_error", 400) })
            ELSE Answer(HTTPException(400, TRUE))
       ELSE hpc' = "convert" /\ UNCHANGED response
    /\ UNCHANGED <<inbound, fetches, frames>>
    /\ UNCHANGED streamVars
    /\ UNCHANGED reqVars
    /\ UNCHANGED utilVars
    /\ UNCHANGED extVars

\* convertClaudeToOpenAI(requestBody, modelManager): a body without model
\* or messages makes it throw a TypeError.
Convert ==
    /\ hpc = "convert"
    /\ IF inbound.convertible
       THEN hpc' = "call" /\ UNCHANGED response
       ELSE Answer(Unexpected)
    /\ UNCHANGED <<inbound, fetches, frames>>
    /\ UNCHANGED streamVars
    /\ UNCHANGED reqVars
    /\ UNCHANGED utilVars
    /\ UNCHANGED extVars

\* What the one fetch of the client can end in.
Outcomes == { "ok", "malformed", "status", "transport", "timeout", "nobody" }

\* The bodies an accepted streaming call delivers.
UpstreamBodies ==
    { << >>,
      << TextChunk >>,
      << TextChunk, TextFinStop >>,
      << Garbled, FinLength >>,
      << NoChoices, TextChunk >> }

\* The converter starts on the body of the upstream response.
StartStream(body) ==
    /\ shape' = "stream"
    /\ chunks' = body
    /\ pc' = "start"
    /\ UNCHANGED <<pos, yielded, outputTokens, stopReason, currentToolCalls,
                   toolBlockCounter, readerLocked, caught, readFailed, raised,
                   finishSeen, firstRun>>

\* Plausible slip: a failed call is attempted once more.
CallUpstream_Retry ==
    /\ hpc = "call"
    /\ \E outcome \in Outcomes :
          /\ fetches' = IF outcome \in { "status", "transport", "timeout" }
                        THEN fetches + 2 ELSE fetches + 1
          /\ IF outcome = "ok" /\ inbound.stream
             THEN /\ \E body \in UpstreamBodies : StartStream(body)
                  /\ response' = jsonResponse("stream", 200)
                  /\ hpc' = "streaming"
             ELSE /\ IF outcome = "ok"
                     THEN Answer({ jsonResponse("message", 200) })
                     ELSE Answer(Unexpected)
                  /\ UNCHANGED streamVars
    /\ UNCHANGED <<inbound, frames>>
    /\ UNCHANGED reqVars
    /\ UNCHANGED utilVars
    /\ UNCHANGED extVars

\* openaiClient.createChatCompletion / createChatCompletionStream: one
\* fetch; a status that is not ok, a rejected or aborted fetch, a missing
\* body and an unreadable completion all reach the catch of the handler.
CallUpstream ==
    /\ hpc = "call"
    /\ \E outcome \in Outcomes :
          /\ fetches' = fetches + 1
          /\ IF outcome = "ok" /\ inbound.stream
             THEN /\ \E body \in UpstreamBodies : StartStream(body)
                  /\ response' = jsonResponse("stream", 200)
                  /\ hpc' = "streaming"
             ELSE /\ IF outcome = "ok"
                     THEN Answer({ jsonResponse("message", 200) })
                     ELSE Answer(Unexpected)
                  /\ UNCHANGED streamVars
    /\ UNCHANGED <<inbound, frames>>
    /\ UNCHANGED reqVars
    /\ UNCHANGED utilVars
    /\ UNCHANGED extVars

\* `event: ${name}\ndata: ${data}\n\n`
SSEFrame(name, data) == [event |-> name, data |-> data]

\* The chunk the converter yields for an event: the frame named after the
\* event type, its data the JSON text of the event.
EventFrame(evt) == SSEFrame(evt.type, [json |-> "object", of |-> evt])

\* JSON.stringify of a string: the quoted string.
JSONString(text) == [json |-> "string", of |-> text]

DoneFrame == SSEFrame("done", [json |-> "none", of |-> << "[DONE]" >>])

\* for await (const chunk of claudeStream): the generator runs when the
\* loop has enqueued every chunk it was given.
Generate ==
    /\ hpc = "streaming"
    /\ Len(frames) = Len(yielded)
    /\ \/ YieldMessageStart
       \/ YieldContentBlockStart
       \/ ReadStream
       \/ ReadFails
       \/ YieldBlockStop
       \/ YieldToolStops
       \/ YieldMessageDelta
       \/ YieldMessageStop
       \/ CatchError

\* controller.enqueue(`event: completion\ndata: ${JSON.stringify(chunk)}\n\n`)
EnqueueChunk ==
    /\ hpc = "streaming"
    /\ Len(frames) < Len(yielded)
    /\ frames' = Append(frames,
                        SSEFrame("completion",
                                 JSONString(EventFrame(yielded[Len(frames) + 1]))))
    /\ UNCHANGED <<hpc, inbound, fetches, response>>
    /\ UNCHANGED streamVars
    /\ UNCHANGED reqVars
    /\ UNCHANGED utilVars
    /\ UNCHANGED extVars

\* The generator has returned: the sentinel is enqueued, the stream closed.
EnqueueDone ==
    /\ hpc = "streaming"
    /\ pc = "done"
    /\ Len(frames) = Len(yielded)
    /\ frames' = Append(frames, DoneFrame)
    /\ hpc' = "closed"
    /\ UNCHANGED <<inbound, fetches, response>>
    /\ UNCHANGED streamVars
    /\ UNCHANGED reqVars
    /\ UNCHANGED utilVars
    /\ UNCHANGED extVars

MaxTokensValues ==
    { [present |-> FALSE, value |-> 0] }
    \cup { [present |-> TRUE, value |-> v] :
              v \in { 0, config.maxTokensLimit, config.maxTokensLimit + 1 } }

HandlerInit ==
    /\ hpc = "parse"
    /\ \E route \in { "worker", "routes" }, json \in BOOLEAN, tooLarge \in BOOLEAN,
          mt \in MaxTokensValues, convertible \in BOOLEAN, stream \in BOOLEAN :
          inbound = Inbound(route, json, tooLarge, mt, convertible, stream)
    /\ fetches = 0
    /\ response = NoResponse
    /\ frames = << >>
    /\ StreamIdle
    /\ ReqIdle
    /\ UtilIdle
    /\ ExtIdle

HandlerNext ==
    \/ ParseBody
    \/ ValidateMaxTokens
    \/ Convert
    \/ CallUpstream
    \/ Generate
    \/ EnqueueChunk
    \/ EnqueueDone

HandlerSpec == HandlerInit /\ [][HandlerNext]_vars

(***************************************************************************)
(* CancelSpec: the converter on a byte stream, with a consumer that may    *)
(* call return() on the generator.  The request takes effect at a yield:   *)
(* the generator completes from there, running the finally blocks that     *)
(* enclose the yield.                                                      *)
(***************************************************************************)
\* Plausible slip: the loop is left without the finally block.
Finally_Skipped(locked) == locked

\* finally { reader.releaseLock(); }
Finally(locked) == FALSE

\* return() at a yield outside the read loop: message_start,
\* content_block_start (the reader is not acquired yet), or one of the
\* closing events.
Abandon ==
    /\ \/ pc \in { "block0", "toolstops", "delta", "mstop" }
       \/ pc = "loop" /\ pos = 0
    /\ readerLocked' = IF pc = "loop" THEN FALSE ELSE readerLocked
    /\ pc' = "returned"
    /\ UNCHANGED <<shape, chunks, pos, yielded, outputTokens, stopReason,
                   currentToolCalls, toolBlockCounter, caught, readFailed, raised,
                   finishSeen, firstRun>>
    /\ UNCHANGED reqVars
    /\ UNCHANGED utilVars
    /\ UNCHANGED handlerVars
    /\ UNCHANGED extVars

\* return() at a yield inside the read loop: the read delivered k lines and
\* the consumer stops at one of the events they produce.  The locals of the
\* completed generator are out of reach and keep their last value here.
AbandonInRead ==
    /\ pc = "loop"
    /\ shape = "stream"
    /\ LET lines == SSELines(chunks) IN
       \E k \in 1..(Len(lines) - pos) :
          LET st == ProcessLines(Local, SubSeq(lines, pos + 1, pos + k), 1) IN
          \E j \in (Len(yielded) + 1)..Len(st.yielded) :
             /\ yielded' = SubSeq(st.yielded, 1, j)
             /\ pos' = pos + k
    /\ readerLocked' = Finally(readerLocked)
    /\ pc' = "returned"
    /\ UNCHANGED <<shape, chunks, outputTokens, stopReason, currentToolCalls,
                   toolBlockCounter, caught, readFailed, raised, finishSeen, firstRun>>
    /\ UNCHANGED reqVars
    /\ UNCHANGED utilVars
    /\ UNCHANGED handlerVars
    /\ UNCHANGED extVars

CancelInit ==
    /\ shape = "stream"
    /\ chunks \in SeqsUpTo(ChunkSet \cup {Garbled}, MaxChunks)
    /\ ConvInit
    /\ firstRun = NoFirstRun
    /\ ReqIdle
    /\ UtilIdle
    /\ HandlerIdle
    /\ ExtIdle

CancelNext ==
    \/ YieldMessageStart
    \/ YieldContentBlockStart
    \/ ReadStream
    \/ ReadFails
    \/ YieldBlockStop
    \/ YieldToolStops
    \/ YieldMessageDelta
    \/ YieldMessageStop
    \/ CatchError
    \/ Abandon
    \/ AbandonInRead

CancelSpec == CancelInit /\ [][CancelNext]_vars

(***************************************************************************)
(* WrapperSpec: the response stream of /v1/messages around the converter   *)
(* on a byte stream.  start() runs `for await (chunk of claudeStream)      *)
(* controller.enqueue(...)`; the reader of the response may cancel it.     *)
(* Cancelling closes the response stream; cancel() of the route aborts a   *)
(* controller of its own whose listener calls controller.error, without    *)
(* effect on a closed stream, and the worker has no cancel().  Nothing     *)
(* reaches the generator until the next enqueue throws: the event just     *)
(* yielded is lost, for await calls return() on the generator and its      *)
(* finally blocks run.                                                     *)
(***************************************************************************)
\* The reader of the response stream cancels it.
CancelStream ==
    /\ ~consumer.cancelled
    /\ pc \in { "block0", "loop", "stop0", "toolstops", "delta", "mstop" }
    /\ consumer' = [cancelled |-> TRUE, pos |-> pos, len |-> Len(yielded), reads |-> 0,
                     ops |-> consumer.ops]
    /\ UNCHANGED <<client, sessions, CONFIG>>
    /\ UNCHANGED streamVars
    /\ UNCHANGED reqVars
    /\ UNCHANGED utilVars
    /\ UNCHANGED handlerVars

\* The response stream is open: enqueue succeeds.
Open == ~consumer.cancelled

\* The response stream is closed and the generator has yielded nothing since.
Closed == consumer.cancelled /\ Len(yielded) = consumer.len

\* The response stream is closed and the event just yielded cannot be enqueued.
EnqueueThrows == consumer.cancelled /\ Len(yielded) > consumer.len

\* A read completes after the cancellation and its lines yield no event, or
\* it reports the end of the upstream: the loop goes on as in ReadStream.
ReadSilently ==
    /\ Closed
    /\ pc = "loop"
    /\ shape = "stream"
    /\ LET lines == SSELines(chunks) IN
       IF pos = Len(lines)
       THEN /\ pc' = "stop0"
            /\ readerLocked' = FALSE
            /\ UNCHANGED <<pos, yielded, outputTokens, stopReason, currentToolCalls,
                           toolBlockCounter, finishSeen, raised>>
       ELSE \E k \in 1..(Len(lines) - pos) :
            /\ pos' = pos + k
            /\ SetLocal(ProcessLines(Local, SubSeq(lines, pos + 1, pos + k), 1))
            /\ yielded' = yielded
            /\ pc' = "loop"
            /\ UNCHANGED readerLocked
    /\ consumer' = [consumer EXCEPT !.reads = @ + 1]
    /\ UNCHANGED <<shape, chunks, caught, readFailed, firstRun>>
    /\ UNCHANGED <<client, sessions, CONFIG>>
    /\ UNCHANGED reqVars
    /\ UNCHANGED utilVars
    /\ UNCHANGED handlerVars

\* A read after the cancellation whose lines yield an event: enqueue throws
\* at the first one.
ReadThenThrow == Closed /\ AbandonInRead /\ Len(yielded') = Len(yielded) + 1

\* The closing loop after the cancellation with no tool block to stop.
StopNothing == Closed /\ YieldToolStops /\ yielded' = yielded

\* The closing loop after the cancellation: enqueue throws at the first
\* content_block_stop of a tool block.
StopThenThrow ==
    /\ Closed
    /\ pc = "toolstops"
    /\ LET stops == ToolStops(currentToolCalls, DOMAIN currentToolCalls) IN
       /\ stops # << >>
       /\ yielded' = Append(yielded, stops[1])
    /\ pc' = "returned"
    /\ UNCHANGED <<shape, chunks, pos, outputTokens, stopReason, currentToolCalls,
                   toolBlockCounter, readerLocked, caught, readFailed, raised,
                   finishSeen, firstRun>>
    /\ UNCHANGED reqVars
    /\ UNCHANGED utilVars
    /\ UNCHANGED handlerVars
    /\ UNCHANGED extVars

WrapperInit ==
    /\ shape = "stream"
    /\ chunks \in SeqsUpTo(ChunkSet \cup ToolChunkSet, MaxChunks)
    /\ ConvInit
    /\ firstRun = NoFirstRun
    /\ ReqIdle
    /\ UtilIdle
    /\ HandlerIdle
    /\ ExtIdle

WrapperNext ==
    \/ Open /\ YieldMessageStart
    \/ Open /\ YieldContentBlockStart
    \/ Open /\ ReadStream
    \/ Open /\ YieldBlockStop
    \/ Open /\ YieldToolStops
    \/ Open /\ YieldMessageDelta
    \/ Open /\ YieldMessageStop
    \/ CancelStream
    \/ Closed /\ YieldContentBlockStart
    \/ ReadSilently
    \/ ReadThenThrow
    \/ Closed /\ YieldBlockStop
    \/ StopNothing
    \/ StopThenThrow
    \/ Closed /\ YieldMessageDelta
    \/ Closed /\ YieldMessageStop
    \/ EnqueueThrows /\ Abandon

WrapperSpec == WrapperInit /\ [][WrapperNext]_vars

(***************************************************************************)
(* ControllerSpec: start(controller) of the response stream, from the      *)
(* first step of the converter to the return or the rejection of start,    *)
(* with a consumer that may cancel the response.                           *)
(***************************************************************************)
\* The consumer cancels the response: the stream is closed, then the cancel
\* algorithm runs.  The route's cancel() aborts its AbortController, whose
\* listener calls controller.error; the worker's stream has no cancel().
CancelResponse ==
    /\ hpc = "streaming"
    /\ ~consumer.cancelled
    /\ Len(frames) = Len(yielded)
    /\ pc \in { "block0", "loop", "stop0", "toolstops", "delta", "mstop" }
    /\ consumer' = [cancelled |-> TRUE, pos |-> pos, len |-> Len(yielded), reads |-> 0,
                     ops |-> IF inbound.route = "routes" THEN << "error" >> ELSE << >>]
    /\ UNCHANGED <<client, sessions, CONFIG>>
    /\ UNCHANGED streamVars
    /\ UNCHANGED reqVars
    /\ UNCHANGED utilVars
    /\ UNCHANGED handlerVars

\* controller.enqueue on the closed stream throws: inside the loop for the
\* event just yielded (the generator is then returned), or after the loop
\* for the sentinel.  The catch block calls controller.enqueue for the error
\* frame, which throws again: start is rejected, controller.close is not
\* reached.
EnqueueAfterCancel ==
    /\ hpc = "streaming"
    /\ consumer.cancelled
    /\ pc \in { "returned", "done" }
    /\ consumer' = [consumer EXCEPT !.ops = @ \o << "enqueue", "enqueue" >>]
    /\ hpc' = "rejected"
    /\ UNCHANGED <<inbound, fetches, response, frames>>
    /\ UNCHANGED <<client, sessions, CONFIG>>
    /\ UNCHANGED streamVars
    /\ UNCHANGED reqVars
    /\ UNCHANGED utilVars

ControllerInit ==
    /\ hpc = "streaming"
    /\ \E route \in { "worker", "routes" } :
          inbound = Inbound(route, TRUE, FALSE, [present |-> FALSE, value |-> 0], TRUE, TRUE)
    /\ fetches = 1
    /\ response = jsonResponse("stream", 200)
    /\ frames = << >>
    /\ shape = "stream"
    /\ chunks \in SeqsUpTo(ChunkSet, MaxChunks)
    /\ ConvInit
    /\ firstRun = NoFirstRun
    /\ ReqIdle
    /\ UtilIdle
    /\ ExtIdle

ControllerNext ==
    \/ Open /\ Generate
    \/ Open /\ EnqueueChunk
    \/ Open /\ EnqueueDone
    \/ CancelResponse
    \/ hpc = "streaming" /\ Closed /\ YieldContentBlockStart
    \/ hpc = "streaming" /\ ReadSilently
    \/ hpc = "streaming" /\ ReadThenThrow
    \/ hpc = "streaming" /\ Closed /\ YieldBlockStop
    \/ hpc = "streaming" /\ StopNothing
    \/ hpc = "streaming" /\ StopThenThrow
    \/ hpc = "streaming" /\ Closed /\ YieldMessageDelta
    \/ hpc = "streaming" /\ Closed /\ YieldMessageStop
    \/ hpc = "streaming" /\ EnqueueThrows /\ Abandon
    \/ EnqueueAfterCancel

ControllerSpec == ControllerInit /\ [][ControllerNext]_vars

(***************************************************************************)
(* ClientSpec: one call of OpenAIClient.createChatCompletion or            *)
(* createChatCompletionStream against the clock.  The constructor keeps    *)
(* timeout * 1000 milliseconds; time is counted in seconds.  The upstream  *)
(* answers, fails or stays silent as it pleases.                           *)
(***************************************************************************)
MaxSeconds == 3

\* Messages of the error with which fetch rejects when its signal is
\* aborted by controller.abort() without a reason; the wording depends on
\* the runtime.
AbortMessages ==
    { << "The", "operation", "was", "aborted" >>,
      << "This", "operation", "was", "aborted" >>,
      << "signal", "is", "aborted", "without", "reason" >>,
      << "The", "user", "aborted", "a", "request." >> }

\* `OpenAI API error: ${response.status} ${response.statusText}`
StatusError(statusText) == << "OpenAI", "API", "error:" >> \o statusText

StatusTexts ==
    { << "401", "Unauthorized" >>, << "408", "Request", "Timeout" >>,
      << "500", "Internal", "Server", "Error" >> }

BodyNullMsg == << "Response", "body", "is", "null" >>

\* The call is still awaiting the upstream.
Pending == client.pc \in { "fetching", "body" }

\* setTimeout(() => controller.abort(), this.timeout); fetch(url, { signal })
StartFetch ==
    /\ client.pc = "call"
    /\ client' = [client EXCEPT !.pc = "fetching", !.timer = "armed"]
    /\ UNCHANGED <<consumer, sessions, CONFIG>>
    /\ UNCHANGED streamVars
    /\ UNCHANGED reqVars
    /\ UNCHANGED utilVars
    /\ UNCHANGED handlerVars

\* One second passes while the call is pending.  A timer that is due runs
\* before more time passes.
Tick ==
    /\ Pending
    /\ client.elapsed < MaxSeconds
    /\ ~(client.timer = "armed" /\ client.elapsed >= client.timeoutSeconds)
    /\ client' = [client EXCEPT !.elapsed = @ + 1]
    /\ UNCHANGED <<consumer, sessions, CONFIG>>
    /\ UNCHANGED streamVars
    /\ UNCHANGED reqVars
    /\ UNCHANGED utilVars
    /\ UNCHANGED handlerVars

\* The timer callback: controller.abort().  A fetch still awaiting the
\* response rejects with the abort error, which the catch rethrows.
TimerFires ==
    /\ client.timer = "armed"
    /\ client.elapsed >= client.timeoutSeconds
    /\ IF client.pc = "fetching"
       THEN \E m \in AbortMessages :
               client' = [client EXCEPT !.timer = "fired", !.pc = "failed",
                                        !.aborted = TRUE, !.error = m]
       ELSE client' = [client EXCEPT !.timer = "fired"]
    /\ UNCHANGED <<consumer, sessions, CONFIG>>
    /\ UNCHANGED streamVars
    /\ UNCHANGED reqVars
    /\ UNCHANGED utilVars
    /\ UNCHANGED handlerVars

\* await fetch(...) resolves with the status line and the headers:
\* clearTimeout(timeoutId), then the checks of response.ok and of the body.
HeadersArrive ==
    /\ client.pc = "fetching"
    /\ \/ client' = [client EXCEPT !.timer = "cleared", !.pc = "body"]
       \/ \E st \in StatusTexts :
             client' = [client EXCEPT !.timer = "cleared", !.pc = "failed",
                                      !.error = StatusError(st)]
       \/ /\ client.streaming
          /\ client' = [client EXCEPT !.timer = "cleared", !.pc = "failed",
                                      !.error = BodyNullMsg]
    /\ UNCHANGED <<consumer, sessions, CONFIG>>
    /\ UNCHANGED streamVars
    /\ UNCHANGED reqVars
    /\ UNCHANGED utilVars
    /\ UNCHANGED handlerVars

\* await fetch(...) rejects for a reason of the network: clearTimeout is
\* skipped and the catch rethrows.
FetchFails ==
    /\ client.pc = "fetching"
    /\ \E m \in ReadErrMsgs : client' = [client EXCEPT !.pc = "failed", !.error = m]
    /\ UNCHANGED <<consumer, sessions, CONFIG>>
    /\ UNCHANGED streamVars
    /\ UNCHANGED reqVars
    /\ UNCHANGED utilVars
    /\ UNCHANGED handlerVars

\* The body arrives in full: response.json() resolves, or the byte stream
\* handed to the converter ends.
BodyArrives ==
    /\ client.pc = "body"
    /\ client' = [client EXCEPT !.pc = "done"]
    /\ UNCHANGED <<consumer, sessions, CONFIG>>
    /\ UNCHANGED streamVars
    /\ UNCHANGED reqVars
    /\ UNCHANGED utilVars
    /\ UNCHANGED handlerVars

\* Reading the body fails for a reason of the network.
BodyFails ==
    /\ client.pc = "body"
    /\ \E m \in ReadErrMsgs : client' = [client EXCEPT !.pc = "failed", !.error = m]
    /\ UNCHANGED <<consumer, sessions, CONFIG>>
    /\ UNCHANGED streamVars
    /\ UNCHANGED reqVars
    /\ UNCHANGED utilVars
    /\ UNCHANGED handlerVars

ClientInit ==
    /\ \E streaming \in BOOLEAN, timeoutSeconds \in 1..(MaxSeconds - 1) :
          client = [pc |-> "call", streaming |-> streaming, timeoutSeconds |-> timeoutSeconds,
                    elapsed |-> 0, timer |-> "unset", aborted |-> FALSE, error |-> << >>]
    /\ consumer = NoConsumer
    /\ sessions = << >>
    /\ CONFIG = NoConfig
    /\ StreamIdle
    /\ ReqIdle
    /\ UtilIdle
    /\ HandlerIdle

ClientNext ==
    \/ StartFetch
    \/ Tick
    \/ TimerFires
    \/ HeadersArrive
    \/ FetchFails
    \/ BodyArrives
    \/ BodyFails

ClientSpec == ClientInit /\ [][ClientNext]_vars

(***************************************************************************)
(* ConcurrentSpec: two inbound requests to /v1/messages handled in one     *)
(* isolate and interleaved at their await points.  The entry point stores  *)
(* the configuration of its env in globalThis.CONFIG and the route reads   *)
(* it back after awaiting the body; the accumulators of the converter are  *)
(* locals of each call.                                                    *)
(***************************************************************************)
MaxFragments == 2

Requests == { 1, 2 }

\* A request on arrival: the MAX_TOKENS_LIMIT of its env, its max_tokens
\* (0: absent) and the text fragments its upstream will deliver.
Session(limit, max_tokens, fragments) ==
    [pc |-> "new", env |-> [maxTokensLimit |-> limit], max_tokens |-> max_tokens,
     fragments |-> fragments, configOf |-> 0, outputTokens |-> 0,
     response |-> [status |-> 0, max_tokens |-> 0, output_tokens |-> 0]]

\* fetch(request, env, ctx): globalThis.CONFIG = configManager.config, then
\* routes.fetch runs up to `await c.req.json()`.
Enter(r) ==
    /\ sessions[r].pc = "new"
    /\ CONFIG' = [present |-> TRUE, maxTokensLimit |-> sessions[r].env.maxTokensLimit,
                  writer |-> r]
    /\ sessions' = [sessions EXCEPT ![r].pc = "parsing"]
    /\ UNCHANGED <<consumer, client>>
    /\ UNCHANGED streamVars
    /\ UNCHANGED reqVars
    /\ UNCHANGED utilVars
    /\ UNCHANGED handlerVars

\* The body is parsed: currentConfig = globalThis.CONFIG || appConfig, the
\* ceiling is checked, the request converted and clamped, and the upstream
\* call awaited.
Validate(r) ==
    /\ sessions[r].pc = "parsing"
    /\ LET currentConfig == CONFIG
           max_tokens == sessions[r].max_tokens
       IN  IF max_tokens # 0 /\ max_tokens > currentConfig.maxTokensLimit
           THEN sessions' = [sessions EXCEPT
                    ![r].pc = "answered",
                    ![r].configOf = currentConfig.writer,
                    ![r].response = [status |-> 400, max_tokens |-> 0, output_tokens |-> 0]]
           ELSE sessions' = [sessions EXCEPT
                    ![r].pc = "converting",
                    ![r].configOf = currentConfig.writer,
                    ![r].response.max_tokens =
                        IF max_tokens # 0 /\ max_tokens > currentConfig.maxTokensLimit
                        THEN currentConfig.maxTokensLimit ELSE max_tokens]
    /\ UNCHANGED <<consumer, client, CONFIG>>
    /\ UNCHANGED streamVars
    /\ UNCHANGED reqVars
    /\ UNCHANGED utilVars
    /\ UNCHANGED handlerVars

\* One text fragment of the upstream of r: outputTokens += 1 on the local
\* of its converter.
Fragment(r) ==
    /\ sessions[r].pc = "converting"
    /\ sessions[r].outputTokens < sessions[r].fragments
    /\ sessions' = [sessions EXCEPT ![r].outputTokens = @ + 1]
    /\ UNCHANGED <<consumer, client, CONFIG>>
    /\ UNCHANGED streamVars
    /\ UNCHANGED reqVars
    /\ UNCHANGED utilVars
    /\ UNCHANGED handlerVars

\* The upstream of r ends: message_delta carries the local outputTokens.
Finish(r) ==
    /\ sessions[r].pc = "converting"
    /\ sessions[r].outputTokens = sessions[r].fragments
    /\ sessions' = [sessions EXCEPT
           ![r].pc = "answered",
           ![r].response.status = 200,
           ![r].response.output_tokens = sessions[r].outputTokens]
    /\ UNCHANGED <<consumer, client, CONFIG>>
    /\ UNCHANGED streamVars
    /\ UNCHANGED reqVars
    /\ UNCHANGED utilVars
    /\ UNCHANGED handlerVars

ConcurrentInit ==
    /\ sessions \in [Requests -> { Session(l, m, f) : l \in 1..2, m \in 0..2,
                                                       f \in 0..MaxFragments }]
    /\ CONFIG = [present |-> FALSE, maxTokensLimit |-> 0, writer |-> 0]
    /\ consumer = NoConsumer
    /\ client = NoClient
    /\ StreamIdle
    /\ ReqIdle
    /\ UtilIdle
    /\ HandlerIdle

ConcurrentNext ==
    \E r \in Requests :
       \/ Enter(r)
       \/ Validate(r)
       \/ Fragment(r)
       \/ Finish(r)

ConcurrentSpec == ConcurrentInit /\ [][ConcurrentNext]_vars

(***************************************************************************)
(* FinishSpec: the streaming converter, or a call of the response          *)
(* converter or of mapOpenAIFinishReason.                                  *)
(***************************************************************************)
FinishSpec == (Init \/ UtilInit) /\ [][Next \/ UtilNext]_vars

(***************************************************************************)
(* Helpers of the properties.                                              *)
(***************************************************************************)
TypesOf(evs) == [i \in 1..Len(evs) |-> evs[i].type]

Count(evs, t) == Cardinality({ i \in 1..Len(evs) : evs[i].type = t })

IsToolStart(e) == e.type = "content_block_start" /\ e.block = "tool_use"

IsJsonDelta(e) == e.type = "content_block_delta" /\ e.delta = "input_json_delta"

ToolStartIndices(evs) == { evs[i].index : i \in { j \in 1..Len(evs) : IsToolStart(evs[j]) } }

\* The run ended through the outer catch.
Errored == readFailed \/ (shape = "iterable" /\ raised)

EpilogueTypes == { "content_block_stop", "message_delta", "message_stop", "error" }

(***************************************************************************)
(* C1.                                                                     *)
(***************************************************************************)
\* The events of a completed run: content_block_start for index 0 second,
\* then only content_block_start / content_block_delta events, then
\* content_block_stop for index 0, one content_block_stop per started tool
\* block, message_delta, and message_stop last; message_start,
\* message_delta and message_stop occur exactly once.
OrderedRun ==
    LET n == Len(yielded)
        T == ToolStartIndices(yielded)
        p == n - 2 - Cardinality(T)
    IN  /\ p >= 3
        /\ yielded[2] = contentBlockStart
        /\ \A i \in 3..(p - 1) :
             yielded[i].type \in { "content_block_start", "content_block_delta" }
        /\ yielded[p] = contentBlockStop
        /\ \A i \in (p + 1)..(n - 2) :
             yielded[i].type = "content_block_stop" /\ yielded[i].index \in T
        /\ { yielded[i].index : i \in (p + 1)..(n - 2) } = T
        /\ yielded[n - 1].type = "message_delta"
        /\ yielded[n].type = "message_stop"
        /\ Count(yielded, "message_start") = 1
        /\ Count(yielded, "message_delta") = 1
        /\ Count(yielded, "message_stop") = 1
        /\ Count(yielded, "error") = 0

\* message_start is the first event and precedes the first read.
StartsFirst ==
    /\ (yielded = << >> => pos = 0)
    /\ (yielded # << >> => yielded[1] = messageStart)

\* C1 as stated: for every sequence of chunks consumed without a read
\* error, message_start comes first, before any chunk is read, and the
\* events of the run are ordered as OrderedRun says.
C1_EventOrderWithoutReadError ==
    /\ StartsFirst
    /\ (pc = "done" /\ ~readFailed) => OrderedRun

\* C1 as amended: the same for every sequence of chunks consumed without
\* any error reaching the outer handler: no failed read and, in the
\* AsyncIterable shape, no chunk without a choices list.
C1_EventOrder ==
    /\ StartsFirst
    /\ (pc = "done" /\ ~Errored) => OrderedRun

\* A finished error-free run with two started tool blocks.
C1_Witness ==
    /\ pc = "done" /\ ~Errored
    /\ Cardinality(ToolStartIndices(yielded)) = 2

(***************************************************************************)
(* C2.                                                                     *)
(***************************************************************************)
\* The run ended with exactly one error event, the last event, carrying
\* the classified message of the error that was caught.
ErrorTerminated ==
    /\ yielded # << >>
    /\ yielded[Len(yielded)] = errorEvent(classifyError(caught))
    /\ Count(yielded, "error") = 1

RECURSIVE ConcatArgs(_, _)
ConcatArgs(cs, i) ==
    IF i > Len(cs) THEN << >>
    ELSE cs[i].tool_calls[1].arguments \o ConcatArgs(cs, i + 1)

IsArgsChunk(c) ==
    /\ c.choices = "one" /\ c.content = None /\ c.finish_reason = None
    /\ Len(c.tool_calls) = 1
    /\ c.tool_calls[1] = Args(0, c.tool_calls[1].arguments)

\* The header fragment of tool call 0, then N >= 1 argument fragments.
RoundTripInput ==
    /\ Len(chunks) >= 2
    /\ chunks[1] = ToolChunk(<<Header(0)>>)
    /\ \A i \in 2..Len(chunks) : IsArgsChunk(chunks[i])

RoundTripOutput ==
    /\ SelectSeq(yielded, IsToolStart) = << toolUseStart(1, "t0", "f") >>
    /\ SelectSeq(yielded, IsJsonDelta) = << toolUseDelta(1, ConcatArgs(chunks, 2)) >>

\* C3 as stated: for argument fragments whose concatenation is a valid JSON
\* object text, however split, the converter yields exactly one
\* content_block_start for the tool and exactly one input_json_delta whose
\* partial_json is the full concatenation.
C3_RoundTripAnyValidText ==
    (pc = "done" /\ ~Errored /\ RoundTripInput /\ JSONParses(ConcatArgs(chunks, 2)))
        => RoundTripOutput

\* C3 as amended: the same, for texts that end with their closing brace
\* (no whitespace after it).
C3_RoundTrip ==
    (/\ pc = "done" /\ ~Errored /\ RoundTripInput
     /\ JSONParses(ConcatArgs(chunks, 2))
     /\ ConcatArgs(chunks, 2)[Len(ConcatArgs(chunks, 2))] = "}")
        => RoundTripOutput

\* The text {} delivered as two fragments, converted to the end.
C3_Witness ==
    /\ pc = "done" /\ ~Errored
    /\ chunks = << ToolChunk(<<Header(0)>>), ToolChunk(<<Args(0, <<"{">>)>>),
                   ToolChunk(<<Args(0, <<"}">>)>> ) >>
    /\ RoundTripOutput

(***************************************************************************)
(* C4: in the returned request every assistant message with tool_calls is  *)
(* followed at once by tool messages that answer each of its call ids       *)
(* before the next message of another role, and a call no tool_result of    *)
(* the source answers gets the placeholder message.                         *)
(***************************************************************************)
\* The positions of the tool messages that directly follow position p.
ToolRun(msgs, p) ==
    { q \in (p + 1)..Len(msgs) : \A r \in (p + 1)..q : msgs[r].role = "tool" }

HasToolCalls(m) == m.role = "assistant" /\ m.tool_calls # << >>

AnsweredIds ==
    UNION { Ids(SelectSeq(request.messages[k].blocks, IsToolResult)) :
              k \in 1..Len(request.messages) }

C4_ToolCallsAnswered ==
    rpc = "done" =>
        \A p \in 1..Len(openaiRequest) :
            HasToolCalls(openaiRequest[p]) =>
                \A k \in 1..Len(openaiRequest[p].tool_calls) :
                    LET id == openaiRequest[p].tool_calls[k].id IN
                    /\ \E q \in ToolRun(openaiRequest, p) :
                          openaiRequest[q].tool_call_id = id
                    /\ id \notin AnsweredIds =>
                          \E q \in ToolRun(openaiRequest, p) :
                             openaiRequest[q] = Placeholder(id)

(***************************************************************************)
(* C5: when the converted messages do not all fit, the returned list is    *)
(* the system message followed by a suffix of the converted messages, each  *)
(* kept as converted.                                                       *)
(***************************************************************************)
RECURSIVE TotalSize(_)
TotalSize(msgs) == IF msgs = << >> THEN 0 ELSE MessageSize(msgs[1]) + TotalSize(Tail(msgs))

SystemMessages ==
    IF SystemPresent
    THEN << OpenAIMessage("system", StringContent(truncateContent(request.system)), << >>, None) >>
    ELSE << >>

Exceeds == SkeletonSize + TotalSize(convertedMessages) > MAX_TOTAL_REQUEST_SIZE

C5_SystemAndSuffixKept ==
    (rpc = "done" /\ Exceeds) =>
        \E k \in 0..Len(convertedMessages) :
            openaiRequest = SystemMessages
                            \o SubSeq(convertedMessages, k + 1, Len(convertedMessages))

(***************************************************************************)
(* C6: the serialized length of the returned request, the separators       *)
(* between its messages included, is at most the ceiling.                   *)
(***************************************************************************)
\* JSON.stringify(openaiRequest).length
SerializedLength(msgs) ==
    SkeletonSize + TotalSize(msgs) + (IF Len(msgs) > 1 THEN Len(msgs) - 1 ELSE 0)

C6_UnderCeiling ==
    (rpc = "done" /\ SkeletonSize <= MAX_TOTAL_REQUEST_SIZE) =>
        SerializedLength(openaiRequest) <= MAX_TOTAL_REQUEST_SIZE

(***************************************************************************)
(* C7: the events yielded for the chunks supplied as decoded objects and   *)
(* for the same chunks supplied as an SSE byte stream are identical.       *)
(***************************************************************************)
C7_SameEvents ==
    (pc = "done" /\ firstRun.taken /\ ~readFailed /\ ~firstRun.readFailed)
        => yielded = firstRun.yielded

(***************************************************************************)
(* C8: once a chunk carrying a finish_reason has been processed, no later  *)
(* chunk produces an event or changes stop_reason or output_tokens: only   *)
(* the closing events follow.                                              *)
(***************************************************************************)
C8_NothingAfterFinish ==
    [][finishSeen =>
          /\ outputTokens' = outputTokens
          /\ stopReason' = stopReason
          /\ \A i \in (Len(yielded) + 1)..Len(yielded') :
                yielded'[i].type \in EpilogueTypes]_vars

(***************************************************************************)
(* C9: index 0 is used only for the text block; the k-th tool call to have *)
(* both its id and its name observed is assigned block index k at that     *)
(* moment and gets exactly one content_block_start; tool block indices are *)
(* distinct, consecutive from 1 in order of start, and never reassigned.   *)
(***************************************************************************)
Started == { i \in DOMAIN currentToolCalls : currentToolCalls[i].started }

C9_Indices ==
    /\ \A i \in 1..Len(yielded) :
          /\ yielded[i].index = 0 => ~IsToolStart(yielded[i]) /\ ~IsJsonDelta(yielded[i])
          /\ (IsToolStart(yielded[i]) \/ IsJsonDelta(yielded[i])) => yielded[i].index >= 1
    /\ LET starts == SelectSeq(yielded, IsToolStart) IN
          /\ \A k \in 1..Len(starts) : starts[k].index = k
          /\ Len(starts) = toolBlockCounter
          /\ Len(starts) = Cardinality(Started)
    /\ \A i \in DOMAIN currentToolCalls :
          LET tc == currentToolCalls[i] IN
          /\ tc.started <=> (tc.id # None /\ tc.name # None)
          /\ tc.started => /\ tc.claudeIndex \in 1..toolBlockCounter
                           /\ \E j \in 1..Len(yielded) :
                                yielded[j] = toolUseStart(tc.claudeIndex, tc.id, tc.name)
          /\ ~tc.started => tc.claudeIndex = -1
    /\ \A i, j \in Started :
          i # j => currentToolCalls[i].claudeIndex # currentToolCalls[j].claudeIndex

C9_BlockIndices ==
    /\ []C9_Indices
    /\ [][\A i \in Started :
             /\ i \in DOMAIN currentToolCalls'
             /\ currentToolCalls'[i].claudeIndex = currentToolCalls[i].claudeIndex]_vars

\* Destination index 1 started first (block 1); index 0, whose id and name
\* came in separate fragments, started second (block 2).
C9_Witness ==
    /\ pc = "done" /\ ~Errored
    /\ chunks = << ToolChunk(<<Header(1)>>), ToolChunk(<<IdOnly(0)>>),
                   ToolChunk(<<NameOnly(0)>>) >>
    /\ currentToolCalls[1].claudeIndex = 1
    /\ currentToolCalls[0].claudeIndex = 2

(***************************************************************************)
(* C10: when an assistant message has tool_use ids C and the next message   *)
(* is a user message whose tool_result blocks answer a subset R of C, one   *)
(* block each, the turn has exactly |C| tool messages: for each id of R the *)
(* one with the content of its result, for each id of C \ R the one with    *)
(* the placeholder text.                                                    *)
(***************************************************************************)
ToolUseIds(message) == Ids(SelectSeq(message.blocks, IsToolUse))

\* The tool_result blocks of the message after source message k.
ResultsAfter(k) == SelectSeq(request.messages[k + 1].blocks, IsToolResult)

Supplied(k) ==
    /\ k < Len(request.messages)
    /\ request.messages[k].role = "assistant"
    /\ ~request.messages[k].isString
    /\ ToolUseIds(request.messages[k]) # {}
    /\ request.messages[k + 1].role = "user"
    /\ ~request.messages[k + 1].isString
    /\ Ids(ResultsAfter(k)) \subseteq ToolUseIds(request.messages[k])
    /\ Cardinality(Ids(ResultsAfter(k))) = Len(ResultsAfter(k))

\* The tool messages pushed for source message k.
TurnToolMessages(k) ==
    { q \in 1..Len(openaiRequest) : origin[q] = k /\ openaiRequest[q].role = "tool" }

C10_Turn(k) ==
    LET C == ToolUseIds(request.messages[k])
        results == ResultsAfter(k)
        T == TurnToolMessages(k)
    IN  /\ Cardinality(T) = Cardinality(C)
        /\ \A q \in T : q \in ToolRun(openaiRequest, CHOOSE p \in 1..Len(openaiRequest) :
                                         origin[p] = k /\ openaiRequest[p].role = "assistant")
        /\ \A id \in C :
              \E q \in T :
                 /\ openaiRequest[q].tool_call_id = id
                 /\ \A j \in 1..Len(results) :
                       (results[j].id = id /\ results[j].hasContent)
                           => openaiRequest[q].content = StringContent(results[j].content)
                 /\ id \in Ids(results) => openaiRequest[q].content.text # PlaceholderText
                 /\ id \notin Ids(results)
                       => openaiRequest[q].content = StringContent(PlaceholderText)

C10_RealAndPlaceholder ==
    rpc = "done" => \A k \in 1..Len(request.messages) : Supplied(k) => C10_Turn(k)

\* Two calls, of which the next message answers only t1.
C10_Witness ==
    /\ rpc = "done"
    /\ Len(request.messages) >= 2
    /\ request.messages[1] = BlockMsg("assistant", << ToolUse("t1"), ToolUse("t2") >>)
    /\ request.messages[2] = BlockMsg("user", << ToolResult("t1", << "r" >>) >>)
    /\ Supplied(1)
    /\ Cardinality(TurnToolMessages(1)) = 2

(***************************************************************************)
(* C11: the response built by convertOpenAIToClaudeResponse has at least   *)
(* one content block; when the message has null or absent content and no   *)
(* tool calls, its content is exactly one text block with empty text.      *)
(***************************************************************************)
Returned(fn) == call.fn = fn /\ ret.done /\ ~ret.threw

C11_AtLeastOneBlock ==
    Returned("convertOpenAIToClaudeResponse") =>
        /\ Len(ret.value.content) >= 1
        /\ (call.arg.content.kind \in { "null", "absent" } /\ call.arg.tool_calls = << >>)
              => ret.value.content = << TextOut(<< >>) >>

\* A response with null content and no tool calls, converted.
C11_Witness ==
    /\ Returned("convertOpenAIToClaudeResponse")
    /\ call.arg.content.kind = "null"
    /\ call.arg.tool_calls = << >>
    /\ Len(ret.value.content) = 1

(***************************************************************************)
(* C12: mapOpenAIFinishReason never fails and maps stop to end_turn,       *)
(* length to max_tokens, tool_calls and function_call to tool_use,         *)
(* content_filter to stop_sequence and every other value, an absent one    *)
(* included, to end_turn; the response converter and the streaming         *)
(* converter report the stop_reason of that table.                         *)
(***************************************************************************)
StopReasonTable(fr) ==
    CASE fr = "stop" -> "end_turn"
      [] fr = "length" -> "max_tokens"
      [] fr \in { "tool_calls", "function_call" } -> "tool_use"
      [] fr = "content_filter" -> "stop_sequence"
      [] OTHER -> "end_turn"

\* The positions of the chunks that carry a finish_reason.
FinishChunks ==
    { k \in 1..Len(chunks) : chunks[k].choices = "one" /\ chunks[k].finish_reason # None }

Mentions(name, word) ==
    \E k \in 1..Len(name) : name[k] \in word

HaikuWords == { "haiku", "Haiku" }

OpusWords == { "opus", "OPUS" }

SonnetWords == { "sonnet", "Sonnet" }

C13_ModelByPrecedence ==
    (call.fn = "getOpenAIModel" /\ ret.done) =>
        /\ ~ret.threw
        /\ Mentions(call.arg, HaikuWords) => ret.value = config.smallModel
        /\ (Mentions(call.arg, OpusWords) /\ ~Mentions(call.arg, HaikuWords))
              => ret.value = config.bigModel
        /\ (/\ Mentions(call.arg, SonnetWords)
            /\ ~Mentions(call.arg, HaikuWords)
            /\ ~Mentions(call.arg, OpusWords))
              => ret.value = config.middleModel
        /\ (/\ ~Mentions(call.arg, SonnetWords)
            /\ ~Mentions(call.arg, HaikuWords)
            /\ ~Mentions(call.arg, OpusWords))
              => ret.value = config.bigModel

\* A capitalised haiku after another fragment gets the small model.
C13_Witness ==
    /\ Returned("getOpenAIModel")
    /\ Len(call.arg) = 2
    /\ call.arg[2] = "Haiku"
    /\ ret.value = config.smallModel

\* The statement without precedence: each word alone decides the model.
C13_ModelByWord ==
    (call.fn = "getOpenAIModel" /\ ret.done) =>
        /\ ~ret.threw
        /\ Mentions(call.arg, HaikuWords) => ret.value = config.smallModel
        /\ Mentions(call.arg, OpusWords) => ret.value = config.bigModel
        /\ Mentions(call.arg, SonnetWords) => ret.value = config.middleModel
        /\ (/\ ~Mentions(call.arg, SonnetWords)
            /\ ~Mentions(call.arg, HaikuWords)
            /\ ~Mentions(call.arg, OpusWords))
              => ret.value = config.bigModel

(***************************************************************************)
(* C16: classifyError compares the lower-cased message with five groups of *)
(* patterns in the order invalid key, rate limit, model unavailable,       *)
(* request too long, timeout, and returns the canned text of the first     *)
(* group that matches; a message matching no group is returned unchanged.  *)
(***************************************************************************)
\* The patterns of the five groups, in lower case, and their canned texts.
ErrorGroups ==
    << [patterns |-> { <<"invalid", "api", "key">>, <<"unauthorized">> },
        canned |-> <<"Invalid API key provided. Please check your OpenAI API key.">>],
       [patterns |-> { <<"quota", "exceeded">>, <<"rate", "limit">> },
        canned |-> <<"Rate limit or quota exceeded. Please try again later.">>],
       [patterns |-> { <<"model", "not", "found">>, <<"model", "does", "not", "exist">> },
        canned |-> <<"The requested model is not available or does not exist.">>],
       [patterns |-> { <<"context_length_exceeded">>, <<"maximum", "context", "length">> },
        canned |-> <<"Request too long. Please reduce the message length or max_tokens.">>],
       [patterns |-> { <<"timeout">>, <<"timed", "out">> },
        canned |-> <<"Request timed out. Please try again.">>] >>

\* Word w is word v in some case.
SameWord(w, v) ==
    \/ w = v
    \/ << w, v >> \in { << "Unauthorized", "unauthorized" >>, << "Rate", "rate" >>,
                       << "Limit", "limit" >>, << "Timeout", "timeout" >> }

\* The groups with a pattern that occurs in the message, case ignored.
MatchingGroups(m) ==
    { g \in 1..Len(ErrorGroups) :
        \E p \in ErrorGroups[g].patterns :
            \E k \in 0..(Len(m) - Len(p)) :
                \A j \in 1..Len(p) : SameWord(m[k + j], p[j]) }

C16_FirstMatchingGroup ==
    (call.fn = "classifyError" /\ ret.done) =>
        /\ ~ret.threw
        /\ MatchingGroups(call.arg) = {} => ret.value = call.arg
        /\ \A g \in MatchingGroups(call.arg) :
              (\A h \in MatchingGroups(call.arg) : g <= h)
                 => ret.value = ErrorGroups[g].canned

\* A message of two groups gets the text of the earlier one.
C16_Witness ==
    /\ Returned("classifyError")
    /\ MatchingGroups(call.arg) = { 2, 5 }
    /\ ret.value = ErrorGroups[2].canned

(***************************************************************************)
(* C17: countTokens returns input_tokens = max(1, floor(total / 4)), where *)
(* total is the number of characters of the system text and of all message *)
(* text, strings and text blocks alike; the result is an integer of at     *)
(* least 1 for every request, one without any text included.               *)
(***************************************************************************)
\* The text of a content, its blocks laid end to end.
RECURSIVE TextOfBlocks(_)
TextOfBlocks(blocks) ==
    IF blocks = << >> THEN << >>
    ELSE (IF blocks[1].text = None THEN << >> ELSE blocks[1].text) \o TextOfBlocks(Tail(blocks))

TextOfContent(content) ==
    CASE content.kind = "string" -> content.text
      [] content.kind = "blocks" -> TextOfBlocks(content.blocks)
      [] OTHER -> << >>

\* All text of the request laid end to end.
RECURSIVE AllText(_, _)
AllText(system, messages) ==
    IF messages = << >> THEN TextOfContent(system)
    ELSE AllText(system, SubSeq(messages, 1, Len(messages) - 1))
            \o TextOfContent(messages[Len(messages)])

totalCharacters == Len(AllText(call.arg.system, call.arg.messages))

C17_TokenEstimate ==
    (call.fn = "countTokens" /\ ret.done) =>
        /\ ~ret.threw
        /\ ret.value.input_tokens \in Nat
        /\ ret.value.input_tokens >= 1
        /\ 4 * ret.value.input_tokens <= Max(4, totalCharacters)
        /\ totalCharacters < 4 * (ret.value.input_tokens + 1)

\* A request whose text is not a multiple of four characters, rounded down.
C17_Witness ==
    /\ Returned("countTokens")
    /\ totalCharacters = 11
    /\ ret.value.input_tokens = 2

\* A request without any text counts one token.
C17_WitnessNoText ==
    /\ Returned("countTokens")
    /\ totalCharacters = 0
    /\ ret.value.input_tokens = 1

(***************************************************************************)
(* C18: a request whose messages all have string content (and no tools)    *)
(* is converted to a request with as many messages, plus one if a system   *)
(* prompt is present; the roles of the source messages are kept in order.  *)
(***************************************************************************)
StringOnly == \A k \in 1..Len(request.messages) : request.messages[k].isString

SystemOffset == IF request.hasSystem THEN 1 ELSE 0

C18_MessageCount ==
    (rpc = "done" /\ StringOnly) =>
        /\ Len(openaiRequest) = Len(request.messages) + SystemOffset
        /\ \A k \in 1..Len(request.messages) :
              /\ openaiRequest[k + SystemOffset].role = request.messages[k].role
              /\ openaiRequest[k + SystemOffset].content.kind = "string"

(***************************************************************************)
(* C14: handling one inbound /v1/messages request issues exactly one       *)
(* outbound call when the request passes validation (the body parses, is   *)
(* within the size and max_tokens limits and has the fields the converter  *)
(* reads) and none when it is rejected; a failed call (status, transport,  *)
(* timeout) is answered with an error and never attempted again.           *)
(***************************************************************************)
Answered == hpc \in { "answered", "streaming", "closed" }

PassesValidation ==
    /\ inbound.json
    /\ ~(inbound.route = "worker" /\ inbound.tooLarge)
    /\ ~(inbound.max_tokens.present /\ inbound.max_tokens.value > config.maxTokensLimit)
    /\ inbound.convertible

C14_OneOutboundCall ==
    /\ hpc # "idle" => fetches <= 1
    /\ (Answered /\ PassesValidation) => fetches = 1
    /\ (Answered /\ ~PassesValidation) => fetches = 0
    /\ (hpc \in { "parse", "validate", "convert", "call" }) => fetches = 0

\* A failed call surfaced as an error after a single attempt.
C14_Witness ==
    /\ hpc = "answered"
    /\ PassesValidation
    /\ response.status = 500
    /\ fetches = 1

(***************************************************************************)
(* C15: a request whose body is not valid JSON, or whose max_tokens        *)
(* exceeds the configured ceiling, is answered with a 4xx status and the   *)
(* error type invalid_request_error, and no outbound call is made for it.  *)
(***************************************************************************)
ClientInputError ==
    \/ ~inbound.json
    \/ inbound.max_tokens.present /\ inbound.max_tokens.value > config.maxTokensLimit

C15_ClientErrorRejected ==
    (Answered /\ ClientInputError) =>
        /\ hpc = "answered"
        /\ response.status \in 400..499
        /\ response.type = "invalid_request_error"
        /\ fetches = 0

\* The same for the handler of the worker alone.
C15_WorkerRejects ==
    (inbound # << >> /\ inbound.route = "worker") => C15_ClientErrorRejected

(***************************************************************************)
(* C19: when a streamed response is closed, the frames written are one per *)
(* event of the converter, in order, each named after the type of its      *)
(* event with the JSON of the event as data, followed by exactly one done  *)
(* sentinel, which the handler appends and the converter never yields.     *)
(***************************************************************************)
IsSentinel(frame) == frame.event = "done"

C19_FramesAreEvents ==
    (hpc = "closed") =>
        /\ Len(frames) = Len(yielded) + 1
        /\ \A k \in 1..Len(yielded) :
              /\ frames[k].event = yielded[k].type
              /\ frames[k].data.json = "object"
              /\ frames[k].data.of = yielded[k]
        /\ frames[Len(frames)] = DoneFrame
        /\ \A k \in 1..Len(frames) : IsSentinel(frames[k]) => k = Len(frames)
        /\ \A k \in 1..Len(yielded) : yielded[k].type # "done"

\* What does hold of the frames: one completion frame per event, whose data
\* is the quoted frame of the converter, then the sentinel.
C19_FramesWrapEvents ==
    (hpc = "closed") =>
        /\ Len(frames) = Len(yielded) + 1
        /\ \A k \in 1..Len(yielded) :
              /\ frames[k].event = "completion"
              /\ frames[k].data.json = "string"
              /\ frames[k].data.of = EventFrame(yielded[k])
        /\ frames[Len(frames)] = DoneFrame
        /\ \A k \in 1..Len(yielded) : yielded[k].type # "done"

(***************************************************************************)
(* C20: the reader acquired by the byte-stream conversion is held only     *)
(* while the read loop runs; it is released when the upstream ends, when a *)
(* read or the processing fails, and when the consumer abandons the        *)
(* generator before it finishes.                                           *)
(***************************************************************************)
C20_ReaderReleased ==
    /\ readerLocked => (pc = "loop" /\ shape = "stream")
    /\ pc \in { "done", "returned", "catch", "stop0" } => ~readerLocked

\* The consumer abandoned the generator inside the read loop, after a read
\* had produced a delta.
C20_Witness ==
    /\ pc = "returned"
    /\ pos > 0
    /\ Len(yielded) > 2
    /\ ~readerLocked

(***************************************************************************)
(* Fragments of the tool-call chunks consumed so far.                      *)
(***************************************************************************)
\* Chunks processed: every chunk the upstream has delivered.
Consumed == IF pos > Len(chunks) THEN Len(chunks) ELSE pos

\* Chunk q carries a fragment of destination index i.
FragmentFor(i, q) == Len(chunks[q].tool_calls) = 1 /\ chunks[q].tool_calls[1].index = i

\* Both the id and the name of index i have arrived with the first q chunks.
SeenBy(i, q) ==
    /\ \E r \in 1..q : FragmentFor(i, r) /\ chunks[r].tool_calls[1].id # None
    /\ \E r \in 1..q : FragmentFor(i, r) /\ chunks[r].tool_calls[1].name # None

\* The argument fragments of index i among the first q chunks, laid end to
\* end; with fromStart, only those that arrived once id and name were seen.
RECURSIVE Received(_, _, _)
Received(i, q, fromStart) ==
    IF q = 0 THEN << >>
    ELSE Received(i, q - 1, fromStart)
         \o (IF /\ FragmentFor(i, q)
                /\ chunks[q].tool_calls[1].hasArgs
                /\ (fromStart => SeenBy(i, q))
             THEN chunks[q].tool_calls[1].arguments ELSE << >>)

\* The chunks after which the buffer of index i parses.
ParsePoints(i) ==
    { q \in 1..Consumed :
        /\ FragmentFor(i, q) /\ chunks[q].tool_calls[1].hasArgs /\ SeenBy(i, q)
        /\ JSONParses(Received(i, q, TRUE)) }

\* The input_json_delta events yielded for the block of index i.
JsonDeltasOf(i) ==
    { k \in 1..Len(yielded) :
        IsJsonDelta(yielded[k]) /\ yielded[k].index = currentToolCalls[i].claudeIndex }

(***************************************************************************)
(* C25: at most one input_json_delta is yielded per tool block; it is      *)
(* yielded with the first fragment after which the buffer parses as JSON,  *)
(* carries the buffer as accumulated up to that fragment, and no later     *)
(* fragment of the block yields another.                                   *)
(***************************************************************************)
C25_OneJsonDelta ==
    (pc # "idle" /\ ~Errored) =>
        \A i \in DOMAIN currentToolCalls :
            /\ Cardinality(JsonDeltasOf(i)) <= 1
            /\ ParsePoints(i) = {} => JsonDeltasOf(i) = {}
            /\ \A q \in ParsePoints(i) :
                  (\A r \in ParsePoints(i) : q <= r) =>
                      \E k \in JsonDeltasOf(i) :
                          yielded[k].partial_json = Received(i, q, TRUE)

\* The buffer parsed after the second chunk and grew with the third: one
\* delta, carrying the buffer as it stood at the second.
C25_Witness ==
    /\ pc = "done" /\ ~Errored
    /\ chunks = << ToolChunk(<<Header(0)>>), ToolChunk(<<Args(0, <<"{", "}">>)>>),
                   ToolChunk(<<Args(0, <<" ">>)>>) >>
    /\ Cardinality(JsonDeltasOf(0)) = 1
    /\ currentToolCalls[0].argsBuffer = << "{", "}", " " >>

(***************************************************************************)
(* C26: at every point the buffer of a destination tool-call index equals  *)
(* the concatenation, in arrival order, of all argument fragments received *)
(* so far for that index, those that arrived before both the id and the    *)
(* name of the call had been seen included.                                *)
(***************************************************************************)
C26_BufferIsConcatenation ==
    (pc # "idle" /\ ~Errored) =>
        \A i \in DOMAIN currentToolCalls :
            currentToolCalls[i].argsBuffer = Received(i, Consumed, FALSE)

\* What holds: the buffer is the concatenation of the fragments received
\* from the fragment on that completed the id and the name.
C26_BufferFromStart ==
    (pc # "idle" /\ ~Errored) =>
        \A i \in DOMAIN currentToolCalls :
            currentToolCalls[i].argsBuffer = Received(i, Consumed, TRUE)

(***************************************************************************)
(* C27: the content_block_stop events of the tool blocks are yielded in    *)
(* the order in which the blocks were started, i.e. by ascending block     *)
(* index, whatever the order in which the destination indices started.     *)
(***************************************************************************)
IsToolStop(e) == e.type = "content_block_stop" /\ e.index # textBlockIndex

ToolStopEvents == SelectSeq(yielded, IsToolStop)

C27_StopsInStartOrder ==
    (pc = "done" /\ ~Errored) =>
        \A k \in 1..Len(ToolStopEvents) : ToolStopEvents[k].index = k

\* What holds: the stops follow the ascending destination index.
C27_StopsInDestinationOrder ==
    (pc = "done" /\ ~Errored) =>
        /\ Len(ToolStopEvents) = Cardinality(Started)
        /\ \A k \in 1..Len(ToolStopEvents) :
              \E i \in Started :
                 /\ ToolStopEvents[k].index = currentToolCalls[i].claudeIndex
                 /\ Cardinality({ j \in Started : j < i }) = k - 1

(***************************************************************************)
(* C28: the stop_reason of message_delta is end_turn when no chunk carried *)
(* a finish_reason, and otherwise the mapped value of the first            *)
(* finish_reason of the stream; a finish_reason of a later chunk never     *)
(* changes it.                                                             *)
(***************************************************************************)
FirstFinish == CHOOSE k \in FinishChunks : \A j \in FinishChunks : k <= j

ExpectedStopReason ==
    IF FinishChunks = {} THEN "end_turn"
    ELSE StopReasonTable(chunks[FirstFinish].finish_reason)

MessageDeltas == { k \in 1..Len(yielded) : yielded[k].type = "message_delta" }

C28_FirstFinishReason ==
    (pc = "done" /\ ~Errored) =>
        /\ MessageDeltas # {}
        /\ \A k \in MessageDeltas : yielded[k].stop_reason = ExpectedStopReason

\* The same for the AsyncIterable shape alone.
C28_IterableFirstFinish ==
    shape = "iterable" => C28_FirstFinishReason

(***************************************************************************)
(* C29: the output_tokens of message_delta equals the number of text_delta *)
(* events yielded on block 0 in the stream, one per text fragment          *)
(* processed, and is 0 when there was none.                                *)
(***************************************************************************)
IsTextDelta(e) ==
    e.type = "content_block_delta" /\ e.delta = "text_delta" /\ e.index = textBlockIndex

TextDeltaCount == Len(SelectSeq(yielded, IsTextDelta))

C29_OutputTokens ==
    /\ pc # "idle" => outputTokens = TextDeltaCount
    /\ \A k \in MessageDeltas : yielded[k].output_tokens = TextDeltaCount
    /\ (pc = "done" /\ ~Errored) => MessageDeltas # {}

\* Two text fragments counted.
C29_Witness ==
    /\ pc = "done" /\ ~Errored
    /\ TextDeltaCount = 2
    /\ \E k \in MessageDeltas : yielded[k].output_tokens = 2


(***************************************************************************)
(* C30: every tool_result block of a source message, wherever the message  *)
(* stands in the conversation, produces a tool message of the returned      *)
(* request whose tool_call_id is the block's tool_use_id.                   *)
(***************************************************************************)
\* The pairs <<k, j>> of the tool_result blocks of the source.
SourceToolResults ==
    { kj \in (1..Len(request.messages)) \X (1..2) :
         /\ ~request.messages[kj[1]].isString
         /\ kj[2] <= Len(request.messages[kj[1]].blocks)
         /\ IsToolResult(request.messages[kj[1]].blocks[kj[2]]) }

ToolMessagesFor(id) ==
    { q \in 1..Len(openaiRequest) :
         openaiRequest[q].role = "tool" /\ openaiRequest[q].tool_call_id = id }

C30_EveryToolResultConverted ==
    rpc = "done" =>
        \A kj \in SourceToolResults :
            ToolMessagesFor(request.messages[kj[1]].blocks[kj[2]].id) # {}

\* The tool_result blocks of a user message that directly follows an
\* assistant message with tool calls are the ones that are converted.
C30_ResultsAfterToolCalls ==
    rpc = "done" =>
        \A k \in 1..Len(request.messages) :
            (/\ k < Len(request.messages)
             /\ request.messages[k].role = "assistant"
             /\ ~request.messages[k].isString
             /\ ToolUseIds(request.messages[k]) # {}
             /\ request.messages[k + 1].role = "user"
             /\ ~request.messages[k + 1].isString)
            => \A j \in 1..Len(request.messages[k + 1].blocks) :
                  IsToolResult(request.messages[k + 1].blocks[j])
                     => ToolMessagesFor(request.messages[k + 1].blocks[j].id) # {}


(***************************************************************************)
(* C22: the Authorization header of the outbound call carries the per-call *)
(* credential when one is supplied, which is the x-api-key header when it   *)
(* is present and otherwise the token of an Authorization: Bearer header;   *)
(* without a per-call credential it carries the default of the client; and  *)
(* when neither exists the call is made with no Authorization header.       *)
(***************************************************************************)
\* The per-call credential by the stated precedence.
PerCallCredential(headers) ==
    IF headers.xApiKey.present /\ headers.xApiKey.text # << >>
    THEN headers.xApiKey.text
    ELSE IF /\ headers.authorization.present
            /\ Len(headers.authorization.text) >= 1
            /\ headers.authorization.text[1] = "Bearer "
         THEN SubSeq(headers.authorization.text, 2, Len(headers.authorization.text))
         ELSE << >>

C22_CredentialPrecedence ==
    call.fn = "createChatCompletion" =>
        LET perCall == PerCallCredential(call.arg.headers)
            default == call.arg.clientKey.text
        IN  /\ ret.done => ~ret.threw
            /\ Returned("createChatCompletion") =>
                 ret.value.Authorization =
                    IF perCall # << >> THEN HeaderValue(<< "Bearer " >> \o perCall)
                    ELSE IF default # << >> THEN HeaderValue(<< "Bearer " >> \o default)
                    ELSE NoHeader

\* Both headers are present and differ; the client has a default.
C22_Witness ==
    /\ Returned("createChatCompletion")
    /\ call.arg.headers.xApiKey = HeaderValue(<< "k3" >>)
    /\ call.arg.headers.authorization = HeaderValue(<< "Bearer ", "k2" >>)
    /\ call.arg.clientKey = HeaderValue(<< "d" >>)
    /\ ret.value.Authorization = HeaderValue(<< "Bearer ", "k3" >>)

\* No credential anywhere: the call is made without the header.
C22_WitnessNoCredential ==
    /\ Returned("createChatCompletion")
    /\ ~call.arg.headers.xApiKey.present
    /\ ~call.arg.headers.authorization.present
    /\ call.arg.clientKey = HeaderValue(<< >>)
    /\ ~ret.value.Authorization.present


(***************************************************************************)
(* C21: once the response stream has been cancelled while the conversion   *)
(* is in progress, the converter stops reading the upstream and releases   *)
(* the reader; it does not go on consuming the upstream until the upstream *)
(* ends on its own.                                                        *)
(***************************************************************************)
\* The upstream had not been read to its end when the stream was cancelled.
CancelledMidStream ==
    /\ consumer.cancelled
    /\ consumer.pos < Len(SSELines(chunks))

\* After the cancellation at most the read that was in flight completes.
C21_CancelStopsReading == CancelledMidStream => consumer.reads <= 1

\* What the wrapper does guarantee: the first event yielded after the
\* cancellation ends the generator with the reader released, and no event
\* beyond that one is produced.
C21_ReleasedAtNextYield ==
    consumer.cancelled =>
        /\ Len(yielded) <= consumer.len + 1
        /\ pc = "returned" => ~readerLocked


\* Cancelled before the first read completes, on an upstream of two chunks
\* delivered one per read that yield no event: both are consumed and the
\* loop ends only when the upstream reports its end.
C21_ConsumedToTheEnd ==
    /\ consumer.cancelled
    /\ consumer.pos = 0
    /\ Len(chunks) = 2
    /\ consumer.reads = 4
    /\ pos = Len(SSELines(chunks))
    /\ pc = "stop0"


(***************************************************************************)
(* C23: an outbound call, blocking or streaming, that has not completed    *)
(* within timeoutSeconds is cancelled by the client, also when the body    *)
(* stalls after the headers have arrived, and the error it then raises is  *)
(* one that classifyError maps to the timeout message.                     *)
(***************************************************************************)
\* The call was cancelled by the timer.
TimedOut == client.pc = "failed" /\ client.aborted

C23_TimeoutCancels ==
    /\ client.elapsed > client.timeoutSeconds => ~Pending
    /\ TimedOut => classifyError(client.error) = MsgTimeout

\* What the client does guarantee: a call whose response has not begun
\* within timeoutSeconds is cancelled.
C23_TimeoutBeforeHeaders ==
    /\ (client.elapsed > client.timeoutSeconds /\ client.pc = "fetching") => FALSE
    /\ TimedOut => client.error \in AbortMessages

\* The body of a streaming response is still awaited after timeoutSeconds.
C23_StalledBody ==
    /\ client.streaming
    /\ client.pc = "body"
    /\ client.timer = "cleared"
    /\ client.elapsed > client.timeoutSeconds


(***************************************************************************)
(* C24: two requests interleaved at their await points get the responses   *)
(* they get when handled one after the other: nothing written while one    *)
(* request is handled, the configuration behind the max_tokens ceiling     *)
(* included, is read while the other is handled.                           *)
(***************************************************************************)
\* The response of request r handled alone.
Alone(r) ==
    IF sessions[r].max_tokens # 0 /\ sessions[r].max_tokens > sessions[r].env.maxTokensLimit
    THEN [status |-> 400, max_tokens |-> 0, output_tokens |-> 0]
    ELSE [status |-> 200, max_tokens |-> sessions[r].max_tokens,
          output_tokens |-> sessions[r].fragments]

C24_Isolated ==
    \A r \in DOMAIN sessions :
        /\ sessions[r].pc \in { "converting", "answered" } => sessions[r].configOf = r
        /\ sessions[r].pc = "answered" => sessions[r].response = Alone(r)

\* The accumulators of the converter are not shared: whatever the
\* interleaving, a completed conversion reports its own fragments.
C24_AccumulatorsIsolated ==
    \A r \in DOMAIN sessions :
        /\ sessions[r].outputTokens <= sessions[r].fragments
        /\ (sessions[r].pc = "answered" /\ sessions[r].response.status = 200)
              => sessions[r].response.output_tokens = sessions[r].fragments

\* With one env for both requests the responses are those of the requests
\* handled alone, although the configuration read may be the other's copy.
C24_SameEnvSameResponses ==
    (\A r, q \in DOMAIN sessions : sessions[r].env = sessions[q].env) =>
        \A r \in DOMAIN sessions :
            sessions[r].pc = "answered" => sessions[r].response = Alone(r)

\* Request 1 is answered with a response it does not get alone.
C24_OtherCeilingApplied ==
    /\ DOMAIN sessions = Requests
    /\ sessions[1].pc = "answered"
    /\ sessions[1].configOf = 2
    /\ sessions[1].response # Alone(1)


(***************************************************************************)
(* C31: the content of a converted response is the text block, present     *)
(* when message.content is a string (the empty one included), followed by  *)
(* one tool_use block per entry of message.tool_calls in the same order,   *)
(* with the entry's id or a generated one, its function.name, and its      *)
(* arguments parsed, or kept as raw_arguments when they do not parse.      *)
(***************************************************************************)
\* Block b is the tool_use block of entry e.
BlockOfEntry(b, e) ==
    /\ b.type = "tool_use"
    /\ IF e.id # None THEN b.id = e.id ELSE b.id \in GeneratedIds
    /\ b.name = (IF e.name # None THEN e.name ELSE "")
    /\ IF JSONParses(IF e.arguments = << >> THEN << "{", "}" >> ELSE e.arguments)
       THEN b.input.kind = "object"
       ELSE b.input = [kind |-> "raw_arguments", value |-> e.arguments]

\* The content is the text block, if any, followed by the blocks of entries.
ContentIs(blocks, content, entries) ==
    LET off == IF content.kind = "string" THEN 1 ELSE 0 IN
    /\ Len(blocks) = off + Len(entries)
    /\ off = 1 => blocks[1] = TextOut(content.text)
    /\ \A k \in 1..Len(entries) :
          off + k <= Len(blocks) /\ BlockOfEntry(blocks[off + k], entries[k])

IsFunctionCall(e) == e.type = "function"

\* As stated: every entry of tool_calls has its block.
C31_BlockPerEntry ==
    (Returned("convertOpenAIToClaudeResponse")
       /\ (call.arg.content.kind = "string" \/ call.arg.tool_calls # << >>))
    => ContentIs(ret.value.content, call.arg.content, call.arg.tool_calls)

\* The entries that have a block are those of type function; when neither
\* a text nor such an entry exists the content is one empty text block.
C31_BlockPerFunctionCall ==
    Returned("convertOpenAIToClaudeResponse") =>
        LET entries == SelectSeq(call.arg.tool_calls, IsFunctionCall) IN
        IF call.arg.content.kind = "string" \/ entries # << >>
        THEN ContentIs(ret.value.content, call.arg.content, entries)
        ELSE ret.value.content = << TextOut(<< >>) >>

\* An empty text, then a call without id whose arguments do not parse, the
\* entry of another type between them being skipped.
C31_Witness ==
    /\ Returned("convertOpenAIToClaudeResponse")
    /\ call.arg.content = StringText(<< >>)
    /\ call.arg.tool_calls = << ResponseToolCall("custom", "c2", "g", << >>),
                                ResponseToolCall("function", None, None, << "{", "k" >>) >>
    /\ Len(ret.value.content) = 2
    /\ ret.value.content[2].input.kind = "raw_arguments"


(***************************************************************************)
(* C32: every request sent to the destination has max_tokens at most the   *)
(* configured ceiling; a produced request above it is clamped before the   *)
(* outbound call.                                                          *)
(***************************************************************************)
WithinCeiling(max_tokens) ==
    max_tokens.present => max_tokens.value <= config.maxTokensLimit

C32_SentWithinCeiling ==
    (Returned("handleMessages") /\ ret.value.sent) => WithinCeiling(ret.value.max_tokens)

\* The worker and the routes module never send more than the ceiling: they
\* answer 400 to an inbound value above it, and what they send is the
\* inbound value.
C32_CurrentHandlersWithinCeiling ==
    (Returned("handleMessages") /\ call.arg.version \in { "worker", "routes" }) =>
        /\ ret.value.sent = WithinCeiling(call.arg.max_tokens)
        /\ ret.value.sent => ret.value.max_tokens = call.arg.max_tokens

\* The earlier version sends a value above the ceiling.
C32_SentAboveCeiling ==
    /\ Returned("handleMessages")
    /\ call.arg.version = "earlier"
    /\ ret.value.sent
    /\ ret.value.max_tokens.value = config.maxTokensLimit + 1


(***************************************************************************)
(* C33: in what the converter has yielded, every content_block_delta for   *)
(* index k comes after the content_block_start for k and before the        *)
(* content_block_stop for k, and every index has at most one               *)
(* content_block_start and at most one content_block_stop; text deltas on  *)
(* block 0 may interleave with tool blocks but never follow its stop.      *)
(***************************************************************************)
\* Positions of the events of type t for block index k.
BlockEvents(t, k) ==
    { p \in 1..Len(yielded) : yielded[p].type = t /\ yielded[p].index = k }

BlockIndices ==
    { yielded[p].index : p \in { q \in 1..Len(yielded) :
          yielded[q].type \in { "content_block_start", "content_block_delta",
                                "content_block_stop" } } }

C33_BlocksWellFormed ==
    \A k \in BlockIndices :
        /\ Cardinality(BlockEvents("content_block_start", k)) <= 1
        /\ Cardinality(BlockEvents("content_block_stop", k)) <= 1
        /\ \A d \in BlockEvents("content_block_delta", k) :
              /\ \E b \in BlockEvents("content_block_start", k) : b < d
              /\ \A e \in BlockEvents("content_block_stop", k) : d < e

\* A completed run in which a text delta follows the start of a tool block
\* and both blocks are stopped.
C33_Witness ==
    /\ pc = "done"
    /\ ~Errored
    /\ \E t \in BlockEvents("content_block_start", 1),
          d \in BlockEvents("content_block_delta", 0) : t < d
    /\ BlockEvents("content_block_delta", 1) # {}
    /\ BlockEvents("content_block_stop", 0) # {}
    /\ BlockEvents("content_block_stop", 1) # {}

(***************************************************************************)
(* C34: the events yielded for a byte stream depend only on the bytes, not *)
(* on how they are cut into reads: the run over reads cut at arbitrary     *)
(* places yields the events of the run that received the body in one read. *)
(***************************************************************************)
SecondRunDone == pc = "done" /\ firstRun.taken

C34_SameEventsForAnySplit ==
    SecondRunDone => yielded = firstRun.yielded

TextDeltas(evs) ==
    Len(SelectSeq(evs, LAMBDA e : e.type = "content_block_delta" /\ e.index = 0))

\* The body is one text line and the sentinel; the run that received it
\* whole yielded the text, the run whose read ended inside the line did not.
C34_FragmentLost ==
    /\ SecondRunDone
    /\ chunks = << TextChunk >>
    /\ TextDeltas(firstRun.yielded) = 1
    /\ TextDeltas(yielded) = 0

\* Reads cut at line ends only: a text line after the line that carries the
\* finish_reason is yielded when it arrives in a later read, and skipped
\* when one read holds both.
C34_LineBoundaryMatters ==
    /\ SecondRunDone
    /\ chunks = << FinLength, TextChunk >>
    /\ ~raised
    /\ TextDeltas(firstRun.yielded) = 0
    /\ TextDeltas(yielded) = 1


(***************************************************************************)
(* C35: for each assistant message with tool_calls, the tool messages that *)
(* follow it hold exactly one message per call id and none whose           *)
(* tool_call_id is not one of that message's call ids.                     *)
(***************************************************************************)
CallIds(m) == { m.tool_calls[k].id : k \in 1..Len(m.tool_calls) }

RunFor(p, id) ==
    { q \in ToolRun(openaiRequest, p) : openaiRequest[q].tool_call_id = id }

C35_OneToolMessagePerCall ==
    rpc = "done" =>
        \A p \in 1..Len(openaiRequest) :
            HasToolCalls(openaiRequest[p]) =>
                /\ \A q \in ToolRun(openaiRequest, p) :
                      openaiRequest[q].tool_call_id \in CallIds(openaiRequest[p])
                /\ \A id \in CallIds(openaiRequest[p]) :
                      Cardinality(RunFor(p, id)) = 1

\* Two tool_result blocks for one id: two tool messages for that call.
C35_DuplicateKept ==
    /\ rpc = "done"
    /\ \E p \in 1..Len(openaiRequest) :
          /\ HasToolCalls(openaiRequest[p])
          /\ \E id \in CallIds(openaiRequest[p]) : Cardinality(RunFor(p, id)) = 2

\* A tool_result for an id the assistant message did not call: its tool
\* message follows that assistant message.
C35_UnrelatedKept ==
    /\ rpc = "done"
    /\ \E p \in 1..Len(openaiRequest) :
          /\ HasToolCalls(openaiRequest[p])
          /\ \E q \in ToolRun(openaiRequest, p) :
                openaiRequest[q].tool_call_id \notin CallIds(openaiRequest[p])

\* What holds: every call id has at least one tool message in the run.
C35_AtLeastOnePerCall ==
    rpc = "done" =>
        \A p \in 1..Len(openaiRequest) :
            HasToolCalls(openaiRequest[p]) =>
                \A id \in CallIds(openaiRequest[p]) : RunFor(p, id) # {}


(***************************************************************************)
(* C36: tool reconciliation loses no content: the text and image blocks    *)
(* that sit beside tool_result blocks in the user message following an     *)
(* assistant tool call appear as a user message after the tool messages.   *)
(***************************************************************************)
\* Source positions k of a user message that follows an assistant message
\* with tool_use blocks and holds tool_result blocks beside text or images.
MixedResultMessages ==
    { k \in 2..Len(request.messages) :
         /\ request.messages[k - 1].role = "assistant"
         /\ ~request.messages[k - 1].isString
         /\ ToolUseIds(request.messages[k - 1]) # {}
         /\ request.messages[k].role = "user"
         /\ ~request.messages[k].isString
         /\ SelectSeq(request.messages[k].blocks, IsToolResult) # << >>
         /\ SelectSeq(request.messages[k].blocks, IsContentPart) # << >> }

\* The user messages of the output that come after the tool messages
\* converted with source message k - 1.
UserMessagesAfterTools(k) ==
    { q \in 1..Len(openaiRequest) :
         /\ openaiRequest[q].role = "user"
         /\ origin[q] = k
         /\ \A t \in 1..Len(openaiRequest) :
               (openaiRequest[t].role = "tool" /\ origin[t] = k - 1) => t < q }

C36_ContentKept ==
    rpc = "done" =>
        \A k \in MixedResultMessages : UserMessagesAfterTools(k) # {}

\* The text beside the tool_result is in no message of the output: the
\* output is the assistant message and its tool messages only.
C36_TextDropped ==
    /\ rpc = "done"
    /\ Len(request.messages) = 2
    /\ MixedResultMessages = { 2 }
    /\ \A q \in 1..Len(openaiRequest) : openaiRequest[q].role # "user"
    /\ \E q \in 1..Len(openaiRequest) : openaiRequest[q].role = "tool"


\* The converter with the size budget keeps the text, but as a user message
\* placed between the assistant tool call and its tool message.
C36_TextBeforeTools ==
    /\ rpc = "done"
    /\ Len(openaiRequest) = 3
    /\ HasToolCalls(openaiRequest[1])
    /\ openaiRequest[2].role = "user"
    /\ openaiRequest[3].role = "tool"

(***************************************************************************)
(* C37: after budget enforcement tool pairing still holds: the kept list   *)
(* holds no tool message whose assistant tool_calls message was dropped    *)
(* and no assistant tool_calls message one of whose tool messages was      *)
(* dropped.                                                                *)
(***************************************************************************)
\* The assistant message a converted tool message answers: the nearest
\* earlier message whose tool_calls hold its id (0 when there is none).
Callers(q) ==
    { p \in 1..(q - 1) :
         /\ HasToolCalls(convertedMessages[p])
         /\ convertedMessages[q].tool_call_id \in CallIds(convertedMessages[p]) }

Owner(q) ==
    IF Callers(q) = {} THEN 0
    ELSE CHOOSE p \in Callers(q) : \A r \in Callers(q) : r <= p

\* finalMessages is a prefix of convertedMessages.
Kept(i) == i <= Len(finalMessages)

AnsweringToolMessages ==
    { q \in 1..Len(convertedMessages) :
         convertedMessages[q].role = "tool" /\ Owner(q) > 0 }

C37_PairsKeptTogether ==
    rpc = "done" =>
        \A q \in AnsweringToolMessages : Kept(q) <=> Kept(Owner(q))

\* The cut falls right after an assistant tool_calls message: it is the
\* last kept message and its tool message is dropped.
C37_CutBetweenPair ==
    /\ rpc = "done"
    /\ finalMessages # << >>
    /\ HasToolCalls(finalMessages[Len(finalMessages)])
    /\ \E q \in AnsweringToolMessages : Owner(q) = Len(finalMessages)

\* What the prefix rule gives: a kept tool message has its assistant kept.
C37_KeptToolHasAssistant ==
    rpc = "done" =>
        \A q \in AnsweringToolMessages : Kept(q) => Kept(Owner(q))


(***************************************************************************)
(* C38: the controller of the response stream is closed or errored exactly *)
(* once and never enqueued to afterwards, on every path: completion, an    *)
(* error while the converter is iterated, a cancel by the client while     *)
(* events are still being enqueued.                                        *)
(***************************************************************************)
\* The calls made on the controller so far, in order: the enqueues that
\* filled frames, close once start has returned, then the calls made since
\* the consumer cancelled.
ControllerCalls ==
    [k \in 1..Len(frames) |-> "enqueue"]
    \o (IF hpc = "closed" THEN << "close" >> ELSE << >>)
    \o consumer.ops

Terminations ==
    { k \in 1..Len(ControllerCalls) : ControllerCalls[k] \in { "close", "error" } }

StartSettled == hpc \in { "closed", "rejected" }

C38_TerminatedOnce ==
    /\ Cardinality(Terminations) <= 1
    /\ StartSettled => Cardinality(Terminations) = 1
    /\ \A k \in Terminations :
          \A j \in (k + 1)..Len(ControllerCalls) : ControllerCalls[j] # "enqueue"
    /\ consumer.cancelled => \A j \in 1..Len(consumer.ops) : consumer.ops[j] # "enqueue"

\* Without a cancellation: start returns after exactly one close, which is
\* the last call on the controller.
C38_ClosedOnceUnlessCancelled ==
    ~consumer.cancelled =>
        /\ Cardinality(Terminations) <= 1
        /\ StartSettled => Terminations = { Len(ControllerCalls) }
        /\ \A k \in Terminations : k = Len(ControllerCalls)

\* The route after a cancel: controller.error, then two calls of enqueue.
C38_EnqueuedAfterError ==
    /\ hpc = "rejected"
    /\ inbound.route = "routes"
    /\ consumer.ops = << "error", "enqueue", "enqueue" >>

\* The worker after a cancel: enqueue is called twice on the closed stream
\* and the controller is neither closed nor errored.
C38_NeverClosed ==
    /\ hpc = "rejected"
    /\ inbound.route = "worker"
    /\ Terminations = {}
    /\ consumer.ops = << "enqueue", "enqueue" >>

\* The upstream read fails with no cancellation: the error event is
\* enqueued, then the sentinel, then the stream is closed.
C38_ErrorPathClosedOnce ==
    /\ hpc = "closed"
    /\ readFailed
    /\ ~consumer.cancelled
    /\ Terminations = { Len(ControllerCalls) }


(***************************************************************************)
(* C39: on every finite upstream, with a consumer that keeps pulling, the  *)
(* converter terminates after yielding exactly one terminal event,         *)
(* message_stop or error and never both; once "data: [DONE]" has been read *)
(* no later data line produces an event.                                   *)
(***************************************************************************)
\* A [DONE] line is among the lines already read.
DonePassed ==
    /\ shape = "stream"
    /\ \E i \in 1..pos : SSELines(chunks)[i].done

C39_NothingAfterDone ==
    [][DonePassed =>
          \A i \in (Len(yielded) + 1)..Len(yielded') :
              yielded'[i].type \in EpilogueTypes]_vars

\* [DONE] arrived in one read, a text line in the next: its delta is yielded.
C39_EventAfterDone ==
    /\ pc = "done"
    /\ shape = "stream"
    /\ chunks = << Sentinel, TextChunk >>
    /\ Count(yielded, "content_block_delta") = 1

\* The run ends with its one terminal event.
C39_OneTerminalEvent ==
    pc = "done" =>
        /\ Count(yielded, "message_stop") + Count(yielded, "error") = 1
        /\ yielded[Len(yielded)].type \in { "message_stop", "error" }

\* Under FairSentinelSpec every run ends.
C39_Terminates == <>(pc = "done")

\* Every step of the converter moves it forward: it consumes upstream
\* lines or passes to a later stage, so no run takes more steps than its
\* first rank.
StageRank ==
    [start |-> 8, block0 |-> 7, loop |-> 6, stop0 |-> 5, toolstops |-> 4,
     delta |-> 3, mstop |-> 2, catch |-> 1, done |-> 0]

Rank == StageRank[pc] * (Len(chunks) + 2) + (Len(chunks) + 1 - pos)

C39_EveryStepAdvances == [][Rank' < Rank]_vars


==============================================================================
